---- MODULE Spec2Model ----
(***************************************************************************)
(* Model of the concurrent download orchestration of sandsound:            *)
(*   src/src/download_manager.py  DownloadManager (thread pool, registry,  *)
(*                                cancellation flags, aggregate progress)  *)
(*   src/src/downloader.py        Downloader.download (the callbacks it    *)
(*                                makes and how it returns or raises)      *)
(*   src/src/ui/app.py            App._on_task_update (history recording)  *)
(*                                                                         *)
(* Threads.  The manager's public methods are called from one client       *)
(* thread (the Tk main loop in app.py).  Every future of a                 *)
(* ThreadPoolExecutor is run by one pool thread, which also runs the       *)
(* future's done-callback; the model therefore keeps one program counter   *)
(* per task object (pc[o]) and bounds the number of objects of one pool    *)
(* that are being run by max_workers.                                      *)
(*                                                                         *)
(* Atomicity.  A `with self._lock:` block is one action.  Code outside of  *)
(* the lock is split wherever it reads or writes shared state: the flag    *)
(* test of progress_callback (line 136) is its own action, so are the four *)
(* counting passes of _notify_aggregate_update (lines 213-216) and the     *)
(* unlocked tail of _on_task_done (lines 192-195).  A call that only       *)
(* hands a task to on_task_update is joined to the action that follows it. *)
(***************************************************************************)
EXTENDS Naturals, FiniteSets, Sequences

\* ------------------------------------------------------------- bounds
\* Task objects ever created (over all batches).
MaxObjs == 2
\* Distinct task_id values.
MaxIds == 2
\* Calls of submit_tasks.
MaxSubmits == 2
\* Calls of submit_tasks, cancel_all, cancel_task and clear together, in a run
\* without preemption.
MaxCalls == 3
\* yt-dlp progress hooks delivered over the whole run.
MaxHooks == 1
\* Exceptions raised by Downloader.download outside of its own try block.
MaxRaises == 1
\* Largest max_workers argument given to the constructor.
MaxWorkerArg == 2
\* Preemptions: times a thread starts to run while the thread that ran last is
\* in the middle of manager code (not waiting for work, blocked inside yt-dlp
\* or back in the UI's event loop).  A run with p preemptions has p calls less.
MaxPreempts == 1
\* The same bounds in the specification with fairness.
MaxFairCalls == 2
MaxFairPreempts == 1
\* The history ledger: playlist ids, video ids, distinct record contents
\* (title, format, quality), add_video_download calls, length of the id list
\* given to get_new_videos.
MaxPlaylists == 2
MaxVideos == 3
MaxContents == 2
MaxAdds == 2
MaxQueryLen == 3
\* Threads that call add_video_download at the same time.
MaxAdders == 2
\* Task records passed to one _sum_speeds call.
MaxSpeedTasks == 3
\* The max_workers arguments given to the constructor are -MaxWorkerRequest..MaxWorkerRequest.
MaxWorkerRequest == 10

\* ------------------------------------------------- program constants
MIN_WORKERS == 1
MAX_WORKERS == 8
PROGRESS_DONE == 100

Objs == 1..MaxObjs
TaskIds == 1..MaxIds
Pools == 1..MaxSubmits

\* TaskStatus (download_manager.py:15-21)
TaskStatus == {"QUEUED", "ACTIVE", "COMPLETED", "FAILED", "CANCELLED"}
Terminal == {"COMPLETED", "FAILED", "CANCELLED"}

\* DownloadStatus values the downloader passes to the callback
\* (downloader.py:256-260, 306, 318, 332).
DownloadStatus == {"PENDING", "DOWNLOADING", "PROCESSING", "COMPLETED", "FAILED"}

\* What progress_hook makes of a yt-dlp hook (downloader.py:256-268): the
\* status ("downloading", "finished", "error") and the percentage, which is 0
\* when the hook carries no total.
HookEvents == {<<"DOWNLOADING", 0>>, <<"DOWNLOADING", 50>>, <<"PROCESSING", 100>>,
               <<"FAILED", 0>>}

\* task.error: None, the text of a yt-dlp error, the text of the exception
\* progress_callback raises (download_manager.py:137), the text of an
\* exception raised outside of download's try block.
NoError == "None"
ErrCancelled == "Download cancelled"
ErrDownload == "download error"
ErrRaised == "unexpected error"

Min(a, b) == IF a < b THEN a ELSE b
Max(a, b) == IF a > b THEN a ELSE b

\* A variant of the clamp without its upper limit; with it WorkerBoundIsClamped
\* fails.
ClampWorkersFromBelow(m) == Max(MIN_WORKERS, m)

\* self._max_workers = min(max(1, max_workers), 8) (download_manager.py:81)
ClampWorkers(m) == Min(Max(MIN_WORKERS, m), MAX_WORKERS)

VARIABLES
    max_workers,    \* self._max_workers
    nObjs,          \* task objects created so far (objects are 1..nObjs)
    task,           \* task[o]: the DownloadTask object o (task_id, status, progress, error)
    pool,           \* pool[o]: the executor object o was submitted to (0: none)
    tasks,          \* self._tasks: task_id -> object (0: no entry)
    futures,        \* self._futures: task_id -> object whose future it holds (0: no entry)
    cancel_flags,   \* self._cancel_flags: task_id -> "absent" | "clear" | "set"
    executor,       \* self._executor: 0 (None) or a pool
    is_running,     \* self._is_running
    pc,             \* pc[o]: where the pool thread running object o stands
    cb,             \* cb[o]: the DownloadProgress of the callback in progress
    agg,            \* agg[o]: locals of _notify_aggregate_update run for o
    lastAggregate,  \* the last AggregateProgress given to on_aggregate_update
    uiPosted,       \* task objects handed to on_task_update so far
    history,        \* task objects for which the UI called add_video_download
    clientPc,       \* "idle", or "clear" between the two halves of clear()
    batchCompletes, \* on_batch_complete invocations so far
    submits,        \* submit_tasks calls so far
    budget,         \* what is left of the run's bounds: calls, hooks, raises, preempts
    downloadCalls,  \* downloadCalls[o]: Downloader.download invocations for o
    cancelledAs,    \* cancelledAs[o]: which call first cancelled o, and from which status
    preCancelled,   \* objects of a batch cancel_all hit before any of its tasks was started
    cleared,        \* objects in flight, their last callback still to come, when clear() was called
    cancelAllRun,   \* cancel_all calls made in a row, with no other step since the first
    cur,            \* the thread that ran last, when it is in the middle of manager code
    playlists,      \* DownloadHistory._playlists: playlist id -> PlaylistRecord
    single_videos,  \* DownloadHistory._single_videos: video id -> DownloadedVideo
    historyFile,    \* the file at _history_path
    clock,          \* datetime.now() of the latest add_video_download call
    query,          \* the arguments and the results of the get_new_videos calls
    lookup,         \* the arguments and the result of the is_video_downloaded calls
    loadError,      \* the exception that left DownloadHistory.__init__, or "none"
    adder,          \* adder[t]: the add_video_download call thread t is inside
    speedCall,      \* the argument and the result of a _sum_speeds call
    ctorCall,       \* the max_workers argument and the result of a constructor call
    lock,           \* the thread that holds self._lock (NoThread: nobody)
    callPc          \* where the client is inside submit_tasks or cancel_all

vars == <<max_workers, nObjs, task, pool, tasks, futures, cancel_flags, executor,
          is_running, pc, cb, agg, lastAggregate, uiPosted, history, batchCompletes,
          submits, budget, downloadCalls, cancelledAs, preCancelled, cleared, cancelAllRun,
          clientPc, cur, playlists, single_videos, historyFile, clock, query, lookup,
          loadError, adder, speedCall, ctorCall, lock, callPc>>

managerVars == <<max_workers, nObjs, task, pool, tasks, futures, cancel_flags, executor,
                 is_running, pc, cb, agg, lastAggregate, uiPosted, history, batchCompletes,
                 submits, budget, downloadCalls, cancelledAs, preCancelled, cleared,
                 cancelAllRun, clientPc, cur, speedCall, ctorCall, lock, callPc>>
historyVars == <<playlists, single_videos, historyFile, clock, query, lookup, loadError,
                 adder>>

workerLocals == <<pc, cb, agg>>
delivered == <<lastAggregate, uiPosted, history, batchCompletes>>
ghosts == <<downloadCalls, cancelledAs, preCancelled, cleared>>

\* ------------------------------------------------------------ values
NoTask == [task_id |-> 0, status |-> "QUEUED", progress |-> 0, error |-> NoError]
NoCb == [status |-> "PENDING", progress |-> 0, error |-> NoError, stage |-> "none"]
NoAgg == [snapshot |-> {}, completed |-> 0, active |-> 0, queued |-> 0,
          failed |-> 0, site |-> "none"]
NoAggregate == [total_tasks |-> 0, completed_tasks |-> 0, active_tasks |-> 0,
                queued_tasks |-> 0, failed_tasks |-> 0, total_progress |-> 0]

NotCancelled == <<"none", "none">>

\* Threads: the pool thread running object o is o.
NoThread == 0
ClientThread == MaxObjs + 1

\* list(self._tasks.values()) (download_manager.py:208)
RegistryObjs == {tasks[i] : i \in {j \in TaskIds : tasks[j] # 0}}

\* self._cancel_flags.get(task.task_id, threading.Event()).is_set()
\* (download_manager.py:136, 173): an id without a flag gets a fresh, unset Event.
FlagIsSet(o) == cancel_flags[task[o].task_id] = "set"

\* Objects of pool p a pool thread is running (its _download_task or its done-callback).
Running(p) == {o \in Objs : pool[o] = p /\ pc[o] \notin {"none", "queued", "finished"}}

\* A variant in which a pool thread may take any waiting work item; with it
\* StartedInSubmissionOrder fails.
IsInQueue(o) == pc[o] = "queued"

\* The work queue of a ThreadPoolExecutor is FIFO: the next work item of pool p
\* is its oldest object not yet taken.
IsHeadOfQueue(o) ==
    /\ pc[o] = "queued"
    /\ \A o2 \in Objs : (o2 < o /\ pool[o2] = pool[o]) => pc[o2] # "queued"

Count(S, statuses) == Cardinality({o \in S : task[o].status \in statuses})

RECURSIVE SumProgress(_)
\* total_progress of download_manager.py:219-224
SumProgress(S) ==
    IF S = {} THEN 0
    ELSE LET o == CHOOSE x \in S : TRUE
             v == IF task[o].status = "COMPLETED" THEN PROGRESS_DONE
                  ELSE IF task[o].status = "ACTIVE" THEN task[o].progress
                  ELSE 0
         IN v + SumProgress(S \ {o})

\* ------------------------------------------------- the history ledger
\* Playlist ids are non-empty strings; NoPlaylist stands for the falsy values
\* (None, "") that add_video_download and is_video_downloaded take to mean
\* "no playlist context" (history.py:145, 210).
NoPlaylist == 0
PlaylistIds == 1..MaxPlaylists
VideoIds == 1..MaxVideos
\* title, format and quality of a DownloadedVideo, as one value
Contents == 1..MaxContents

\* A video id that is not a key of the mapping.
NoVideo == [content |-> 0, downloaded_at |-> 0]
\* DownloadedVideo (history.py:13-20)
DownloadedVideo(content, now) == [content |-> content, downloaded_at |-> now]
\* A playlist id that is not a key of _playlists.
NoPlaylistRecord ==
    [exists |-> FALSE, videos |-> [v \in VideoIds |-> NoVideo], last_downloaded |-> 0]
\* PlaylistRecord(playlist_id, playlist_url, title, last_downloaded=now)
\* (history.py:148-153): videos is empty.
NewPlaylistRecord(now) ==
    [exists |-> TRUE, videos |-> [v \in VideoIds |-> NoVideo], last_downloaded |-> now]

Keys(videos) == {v \in VideoIds : videos[v] # NoVideo}

\* The empty id list and every list of at most MaxQueryLen video ids.
IdLists == UNION {[1..n -> VideoIds] : n \in 0..MaxQueryLen}

\* A variant that answers for a playlist without a record with the videos
\* recorded without a playlist; with it UnknownPlaylistHasNoDownloads fails.
GetDownloadedVideoIdsOrStandalone(playlist_id) ==
    IF playlist_id \in PlaylistIds /\ playlists[playlist_id].exists
    THEN Keys(playlists[playlist_id].videos)
    ELSE Keys(single_videos)

\* get_downloaded_video_ids (history.py:163-175)
GetDownloadedVideoIds(playlist_id) ==
    IF playlist_id \in PlaylistIds /\ playlists[playlist_id].exists
    THEN Keys(playlists[playlist_id].videos)
    ELSE {}

\* A variant that also counts the videos recorded without a playlist; with it
\* NewVideosAreTheUnrecordedIds fails.
GetNewVideosAnyContext(playlist_id, current_video_ids) ==
    LET downloaded == GetDownloadedVideoIds(playlist_id) \cup Keys(single_videos)
        NotDownloaded(vid) == vid \notin downloaded
    IN SelectSeq(current_video_ids, NotDownloaded)

\* get_new_videos (history.py:177-193): the list comprehension keeps the
\* elements of current_video_ids that are not in downloaded, in their order.
GetNewVideos(playlist_id, current_video_ids) ==
    LET downloaded == GetDownloadedVideoIds(playlist_id)
        NotDownloaded(vid) == vid \notin downloaded
    IN SelectSeq(current_video_ids, NotDownloaded)

\* No get_new_videos call yet; the caller will pass playlist_id and ids.
NoQuery(playlist_id, ids) ==
    [asked |-> FALSE, repeated |-> FALSE, playlist_id |-> playlist_id, ids |-> ids,
     first |-> <<>>, last |-> <<>>, recorded |-> {}, stale |-> FALSE]

\* A variant that answers from the history file; with it
\* FailedWriteKeepsRecord fails.
IsVideoDownloadedOnDisk(video_id, playlist_id) ==
    IF playlist_id # NoPlaylist /\ historyFile.playlists[playlist_id].exists
    THEN video_id \in Keys(historyFile.playlists[playlist_id].videos)
    ELSE video_id \in Keys(historyFile.videos)

\* is_video_downloaded (history.py:195-212)
IsVideoDownloaded(video_id, playlist_id) ==
    IF playlist_id # NoPlaylist /\ playlists[playlist_id].exists
    THEN video_id \in Keys(playlists[playlist_id].videos)
    ELSE video_id \in Keys(single_videos)

\* No is_video_downloaded call yet; the caller will pass video_id and playlist_id.
NoLookup(video_id, playlist_id) ==
    [asked |-> FALSE, video_id |-> video_id, playlist_id |-> playlist_id,
     answer |-> FALSE, stale |-> FALSE]

\* The threads that call add_video_download, and a thread outside of a call.
Adders == 1..MaxAdders
NoAdder ==
    [pc |-> "out", video_id |-> 0, content |-> 0, playlist_id |-> NoPlaylist, now |-> 0,
     data |-> <<>>, failed |-> FALSE]

\* The content of the history file (history.py:104-110): both mappings.
Saved(pl, sv) == [state |-> "saved", playlists |-> pl, videos |-> sv]
NoFile ==
    [state |-> "absent", playlists |-> [p \in PlaylistIds |-> NoPlaylistRecord],
     videos |-> [v \in VideoIds |-> NoVideo]]
\* A file that open(..., "w") truncated before the write failed.
TruncatedFile == [NoFile EXCEPT !.state = "truncated"]

\* History files that do not hold what _save wrote: text that is not JSON,
\* a file that cannot be opened or read, bytes that are not UTF-8, JSON whose
\* top level is not an object, a playlist record without one of the keys
\* from_dict reads, a video record whose keys are not the fields of
\* DownloadedVideo.
DamagedFiles == {"invalid_json", "unreadable", "not_utf8", "wrong_shape", "missing_key",
                 "bad_video"}
CorruptFiles == DamagedFiles \cup {"truncated"}
DamagedFile(kind) == [NoFile EXCEPT !.state = kind]

\* The exception _load meets on a file (history.py:84-95): json.load raises
\* JSONDecodeError on text that is not JSON and UnicodeDecodeError on bytes
\* that are not UTF-8, open and read raise IOError, data.get raises
\* AttributeError when data is not a dict, from_dict raises KeyError
\* (history.py:49-52) and DownloadedVideo(**v_data) raises TypeError.
LoadRaises(file) ==
    IF file.state \in {"truncated", "invalid_json"} THEN "JSONDecodeError"
    ELSE IF file.state = "unreadable" THEN "IOError"
    ELSE IF file.state = "not_utf8" THEN "UnicodeDecodeError"
    ELSE IF file.state = "wrong_shape" THEN "AttributeError"
    ELSE IF file.state = "missing_key" THEN "KeyError"
    ELSE IF file.state = "bad_video" THEN "TypeError"
    ELSE "none"

\* except (json.JSONDecodeError, IOError, KeyError) (history.py:97)
LoadCatches == {"JSONDecodeError", "IOError", "KeyError"}

\* The exception that leaves _load, and with it __init__.
LoadEscapes(file) == IF LoadRaises(file) \in LoadCatches THEN "none" ELSE LoadRaises(file)

\* The state after DownloadHistory.__init__ (history.py:64-80) with no history
\* file: _load returns at history.py:84-85 with both mappings empty.
HistoryConstructed ==
    /\ playlists = [p \in PlaylistIds |-> NoPlaylistRecord]
    /\ single_videos = [v \in VideoIds |-> NoVideo]
    /\ historyFile = NoFile
    /\ clock = 0
    /\ query = NoQuery(NoPlaylist, <<>>)
    /\ lookup = NoLookup(1, NoPlaylist)
    /\ loadError = "none"
    /\ adder = [t \in Adders |-> NoAdder]

\* ------------------------------------------------------- speed strings
\* Byte rates are counted in tenths of a byte per second, so that the parsed
\* value of a string with one decimal is a whole number.
KB == 1024
MB == 1024 * 1024

\* A speed string "<value> <unit>", its value in tenths; NoSpeed is "".
SpeedUnits == {"B/s", "KB/s", "MB/s"}
NoSpeed == [value10 |-> 0, unit |-> ""]
SpeedString(value10, unit) == [value10 |-> value10, unit |-> unit]

\* round(n / d) as the formatting of a float does it: to the nearest whole
\* number, a tie to the even one.
RoundHalfEven(n, d) ==
    LET q == n \div d
        r == n % d
    IN  IF 2 * r < d THEN q
        ELSE IF 2 * r > d THEN q + 1
        ELSE IF q % 2 = 0 THEN q ELSE q + 1

\* The byte rates d["speed"] of yt-dlp's hook in the model; 0 stands for None
\* and for 0.
HookSpeeds == {0, 900, 500 * KB, 2 * MB}

\* speed_str of progress_hook for the byte rate `speed` (downloader.py:269-278).
HookSpeedString(speed) ==
    IF speed = 0 THEN NoSpeed
    ELSE IF speed > MB THEN SpeedString(RoundHalfEven(10 * speed, MB), "MB/s")
    ELSE IF speed > KB THEN SpeedString(RoundHalfEven(10 * speed, KB), "KB/s")
    ELSE SpeedString(10 * speed, "B/s")

\* The strings a task's speed field can hold (download_manager.py:141).
TaskSpeeds == {HookSpeedString(speed) : speed \in HookSpeeds}

\* The part of a DownloadTask that _sum_speeds reads.
SpeedTasks == [status : TaskStatus, speed : TaskSpeeds]
SpeedTaskLists == UNION {[1..n -> SpeedTasks] : n \in 0..MaxSpeedTasks}

\* float(speed[:-4]) * 1024 * 1024 and its siblings (download_manager.py:256-262),
\* in tenths of a byte per second.
ParseSpeed(speed) ==
    IF speed.unit = "MB/s" THEN speed.value10 * MB
    ELSE IF speed.unit = "KB/s" THEN speed.value10 * KB
    ELSE IF speed.unit = "B/s" THEN speed.value10
    ELSE 0

\* A variant of the loop that adds the rate of every task that has a speed
\* string, whatever its status; with it TotalSpeedSumsActiveRates fails.
RECURSIVE TotalBytesOfAllTasks(_)
TotalBytesOfAllTasks(ts) ==
    IF ts = <<>> THEN 0
    ELSE (IF Head(ts).speed = NoSpeed THEN 0 ELSE ParseSpeed(Head(ts).speed))
         + TotalBytesOfAllTasks(Tail(ts))

\* total_bytes after the loop of _sum_speeds (download_manager.py:250-262),
\* in tenths of a byte per second.
RECURSIVE TotalBytes(_)
TotalBytes(ts) ==
    IF ts = <<>> THEN 0
    ELSE (IF Head(ts).status # "ACTIVE" \/ Head(ts).speed = NoSpeed
          THEN 0
          ELSE ParseSpeed(Head(ts).speed))
         + TotalBytes(Tail(ts))

\* The string _sum_speeds returns for total_bytes (download_manager.py:264-271).
FormatTotal(total10) ==
    IF total10 > 10 * MB THEN SpeedString(RoundHalfEven(total10, MB), "MB/s")
    ELSE IF total10 > 10 * KB THEN SpeedString(RoundHalfEven(total10, KB), "KB/s")
    ELSE IF total10 > 0 THEN SpeedString(10 * RoundHalfEven(total10, 10), "B/s")
    ELSE NoSpeed

\* _sum_speeds (download_manager.py:247-271)
SumSpeeds(ts) == FormatTotal(TotalBytes(ts))

NoSpeedCall(ts) == [tasks |-> ts, called |-> FALSE, total_speed |-> NoSpeed]
NoCtorCall(m) == [max_workers |-> m, called |-> FALSE, bound |-> 0]

\* ------------------------------------------------------------- Init
\* The state after DownloadManager.__init__ (download_manager.py:80-91).
Constructed ==
    /\ max_workers \in {ClampWorkers(m) : m \in 1..MaxWorkerArg}
    /\ nObjs = 0
    /\ task = [o \in Objs |-> NoTask]
    /\ pool = [o \in Objs |-> 0]
    /\ tasks = [i \in TaskIds |-> 0]
    /\ futures = [i \in TaskIds |-> 0]
    /\ cancel_flags = [i \in TaskIds |-> "absent"]
    /\ executor = 0
    /\ is_running = FALSE
    /\ pc = [o \in Objs |-> "none"]
    /\ cb = [o \in Objs |-> NoCb]
    /\ agg = [o \in Objs |-> NoAgg]
    /\ lastAggregate = NoAggregate
    /\ uiPosted = {}
    /\ history = {}
    /\ batchCompletes = 0
    /\ submits = 0
    /\ downloadCalls = [o \in Objs |-> 0]
    /\ cancelledAs = [o \in Objs |-> NotCancelled]
    /\ preCancelled = {}
    /\ cleared = {}
    /\ cancelAllRun = 0
    /\ clientPc = "idle"
    /\ cur = NoThread

\* No _sum_speeds call and no further constructor call is looked at.
NoCallsMade ==
    /\ speedCall = NoSpeedCall(<<>>)
    /\ ctorCall = NoCtorCall(MIN_WORKERS)
    /\ lock = NoThread
    /\ callPc = "idle"

\* The bounds of a run: p preemptions and MaxCalls - p calls.
Budget(calls, preempts) ==
    {[calls |-> calls - p, hooks |-> MaxHooks, raises |-> MaxRaises, preempts |-> p] :
        p \in 0..preempts}

Init ==
    /\ Constructed
    /\ HistoryConstructed
    /\ NoCallsMade
    /\ budget \in Budget(MaxCalls, MaxPreempts)

\* ------------------------------------------------ the client thread

\* The tasks of a batch: n fresh DownloadTask objects with consecutive ids from s.
NewObjs(n) == (nObjs + 1)..(nObjs + n)
BatchIds(s, n) == s..(s + n - 1)

\* submit_tasks (download_manager.py:93-115).  No test of self._is_running or
\* of the registry is made: the batch is always accepted, a new executor
\* replaces the reference to the old one (whose threads keep running).
SubmitTasks(s, n) ==
    /\ clientPc = "idle"
    /\ submits < MaxSubmits
    /\ nObjs + n <= MaxObjs
    /\ s + n - 1 <= MaxIds
    /\ (n = 0 \/ submits = 0) => s = 1
    /\ is_running' = TRUE
    /\ executor' = submits + 1
    /\ nObjs' = nObjs + n
    /\ task' = [o \in Objs |->
                  IF o \in NewObjs(n)
                  THEN [task_id |-> s + (o - nObjs) - 1, status |-> "QUEUED",
                        progress |-> 0, error |-> NoError]
                  ELSE task[o]]
    /\ tasks' = [i \in TaskIds |->
                   IF i \in BatchIds(s, n) THEN nObjs + (i - s) + 1 ELSE tasks[i]]
    /\ cancel_flags' = [i \in TaskIds |->
                   IF i \in BatchIds(s, n) THEN "clear" ELSE cancel_flags[i]]
    /\ futures' = [i \in TaskIds |->
                   IF i \in BatchIds(s, n) THEN nObjs + (i - s) + 1 ELSE futures[i]]
    /\ pool' = [o \in Objs |-> IF o \in NewObjs(n) THEN submits + 1 ELSE pool[o]]
    /\ pc' = [o \in Objs |-> IF o \in NewObjs(n) THEN "queued" ELSE pc[o]]
    /\ submits' = submits + 1
    /\ UNCHANGED <<cb, agg, delivered, ghosts, clientPc>>

\* A variant of the cancel calls' status update that leaves ACTIVE tasks alone;
\* with it CancelAllPostcondition fails.
CancelStatusQueuedOnly(st) == IF st = "QUEUED" THEN "CANCELLED" ELSE st

\* A variant that cancels a task whatever its status; with it
\* CancelTaskFrame fails.
CancelStatusAlways(st) == "CANCELLED"

\* The status a cancel call leaves a task in (download_manager.py:282-283, 300-301).
CancelStatus(st) == IF st \in {"QUEUED", "ACTIVE"} THEN "CANCELLED" ELSE st

\* A variant of the flag loop that flips every flag instead of setting it; with
\* it CancelAllIdempotent fails.
FlipAllFlags ==
    [i \in TaskIds |-> IF cancel_flags[i] = "clear" THEN "set"
                       ELSE IF cancel_flags[i] = "set" THEN "clear"
                       ELSE "absent"]

\* flag.set() for every flag of the registry (download_manager.py:277-278).
SetAllFlags == [i \in TaskIds |-> IF cancel_flags[i] = "absent" THEN "absent" ELSE "set"]

\* The locked part of cancel_all followed by its unlocked tail
\* (download_manager.py:275-290).  shutdown(wait=False) cancels no future:
\* the work items already queued are still run by the pool's threads.
CancelAllEffect ==
    /\ cancel_flags' = SetAllFlags
    /\ task' = [o \in Objs |->
                  IF o \in RegistryObjs
                  THEN [task[o] EXCEPT !.status = CancelStatus(@)]
                  ELSE task[o]]
    /\ executor' = 0
    /\ is_running' = FALSE
    /\ cancelledAs' = [o \in Objs |->
                  IF /\ o \in RegistryObjs
                     /\ cancelledAs[o] = NotCancelled
                     /\ task[o].status \in {"QUEUED", "ACTIVE"}
                  THEN <<"cancel_all", task[o].status>>
                  ELSE cancelledAs[o]]
    /\ UNCHANGED <<nObjs, pool, tasks, futures>>

\* cancel_all (download_manager.py:273-290)
CancelAll ==
    /\ clientPc = "idle"
    /\ submits > 0
    /\ CancelAllEffect
    /\ preCancelled' =
          IF /\ RegistryObjs # {}
             /\ \A o \in Objs : pc[o] \in {"none", "queued"}
             /\ \A o \in RegistryObjs : task[o].status = "QUEUED"
          THEN preCancelled \cup RegistryObjs
          ELSE preCancelled
    /\ UNCHANGED <<workerLocals, delivered, downloadCalls, cleared, submits, clientPc>>

\* cancel_task (download_manager.py:292-301); i may be an id without an entry.
CancelTask(i) ==
    /\ clientPc = "idle"
    /\ submits > 0
    /\ cancel_flags' = [cancel_flags EXCEPT ![i] = IF @ = "absent" THEN "absent" ELSE "set"]
    /\ task' = [o \in Objs |->
                  IF tasks[i] = o
                  THEN [task[o] EXCEPT !.status = CancelStatus(@)]
                  ELSE task[o]]
    /\ cancelledAs' = [o \in Objs |->
                  IF /\ tasks[i] = o
                     /\ cancelledAs[o] = NotCancelled
                     /\ task[o].status \in {"QUEUED", "ACTIVE"}
                  THEN <<"cancel_task", task[o].status>>
                  ELSE cancelledAs[o]]
    /\ UNCHANGED <<nObjs, pool, tasks, futures, executor, is_running, workerLocals,
                   delivered, downloadCalls, preCancelled, cleared, submits, clientPc>>

\* get_completed_ids (download_manager.py:311-317)
GetCompletedIds == {i \in TaskIds : tasks[i] # 0 /\ task[tasks[i]].status = "COMPLETED"}

\* clear, first half: self.cancel_all() (download_manager.py:321)
ClearCancelAll ==
    /\ clientPc = "idle"
    /\ submits > 0
    /\ CancelAllEffect
    /\ clientPc' = "clear"
    /\ cleared' = cleared \cup {o \in RegistryObjs : /\ task[o].status \in {"QUEUED", "ACTIVE"}
                                                   /\ pc[o] \in {"queued", "download", "running"}}
    /\ UNCHANGED <<workerLocals, delivered, downloadCalls, preCancelled, submits>>

\* A variant of clear's locked block that forgets the cancellation flags; with
\* it RegistryFlagsFuturesShareKeys fails.
ClearWipeKeepsFlags ==
    /\ clientPc = "clear"
    /\ tasks' = [i \in TaskIds |-> 0]
    /\ futures' = [i \in TaskIds |-> 0]
    /\ clientPc' = "idle"
    /\ UNCHANGED <<nObjs, task, pool, cancel_flags, executor, is_running, workerLocals,
                   delivered, ghosts, submits>>

\* clear, second half: the three dicts are emptied under the lock
\* (download_manager.py:322-325)
ClearWipe ==
    /\ clientPc = "clear"
    /\ tasks' = [i \in TaskIds |-> 0]
    /\ futures' = [i \in TaskIds |-> 0]
    /\ cancel_flags' = [i \in TaskIds |-> "absent"]
    /\ clientPc' = "idle"
    /\ UNCHANGED <<nObjs, task, pool, executor, is_running, workerLocals, delivered,
                   ghosts, submits>>

\* A variant in which the handler records every task it is told about; with
\* it RecordedTasksAreCompleted fails.
UiTaskUpdateAnyStatus(o) ==
    /\ clientPc = "idle"
    /\ o \in uiPosted
    /\ history' = history \cup {o}
    /\ UNCHANGED <<nObjs, task, pool, tasks, futures, cancel_flags, executor, is_running,
                   workerLocals, lastAggregate, uiPosted, batchCompletes, ghosts, submits,
                   clientPc>>

\* The UI thread handles an on_task_update event of o.  The event was posted
\* with after(0, ...) and App._on_task_update reads the task's status when it
\* runs, at any later time (app.py:356, 364-395).  A handler that finds the
\* task in another status than COMPLETED records nothing (app.py:384), so only
\* the handling that finds it COMPLETED is a step.
UiTaskUpdate(o) ==
    /\ clientPc = "idle"
    /\ o \in uiPosted
    /\ task[o].status = "COMPLETED"
    /\ history' = history \cup {o}
    /\ UNCHANGED <<nObjs, task, pool, tasks, futures, cancel_flags, executor, is_running,
                   workerLocals, lastAggregate, uiPosted, batchCompletes, ghosts, submits,
                   clientPc>>

\* ------------------------------------------------- the pool threads

\* Where the thread of o goes on after the aggregate it started at `site`:
\* into download (after line 131), to the completion test (after line 183), or
\* back into the downloader that made the callback (after line 152).
AfterAggregate(o, site) ==
    IF site = "active" THEN "download"
    ELSE IF site = "done" THEN "doneCheck"
    ELSE IF cb[o].stage = "completed" THEN "retTrue"
    ELSE IF cb[o].stage = "handler" THEN "retFalse"
    ELSE "running"

\* _notify_task_update(t) followed by the locked snapshot that opens
\* _notify_aggregate_update (download_manager.py:197-211), called from `site`;
\* t = 0 stands for None.  With an empty registry the aggregate returns at once.
NotifyAndSnapshot(o, t, site) ==
    /\ uiPosted' = IF t = 0 THEN uiPosted ELSE uiPosted \cup {t}
    /\ IF RegistryObjs = {}
       THEN /\ pc' = [pc EXCEPT ![o] = AfterAggregate(o, site)]
            /\ agg' = agg
       ELSE /\ pc' = [pc EXCEPT ![o] = "aggCompleted"]
            /\ agg' = [agg EXCEPT ![o] = [NoAgg EXCEPT !.snapshot = RegistryObjs,
                                                       !.site = site]]

\* A pool thread takes the next work item and runs _download_task up to the
\* release of the lock: the status becomes ACTIVE whatever it was
\* (download_manager.py:127-129).
StartTask(o) ==
    /\ IsHeadOfQueue(o)
    /\ Cardinality(Running(pool[o])) < max_workers
    /\ task' = [task EXCEPT ![o].status = "ACTIVE"]
    /\ pc' = [pc EXCEPT ![o] = "notifyActive"]
    /\ UNCHANGED <<nObjs, pool, tasks, futures, cancel_flags, executor, is_running, cb,
                   agg, delivered, ghosts, submits, clientPc>>

\* download_manager.py:130-131
NotifyActive(o) ==
    /\ pc[o] = "notifyActive"
    /\ NotifyAndSnapshot(o, o, "active")
    /\ UNCHANGED <<nObjs, task, pool, tasks, futures, cancel_flags, executor, is_running,
                   cb, lastAggregate, history, batchCompletes, ghosts, submits, clientPc>>

\* The counting passes of _notify_aggregate_update (download_manager.py:213-216):
\* each reads the status of every task of the snapshot, without the lock.
AggCompleted(o) ==
    /\ pc[o] = "aggCompleted"
    /\ agg' = [agg EXCEPT ![o].completed = Count(agg[o].snapshot, {"COMPLETED"})]
    /\ pc' = [pc EXCEPT ![o] = "aggActive"]
    /\ UNCHANGED <<nObjs, task, pool, tasks, futures, cancel_flags, executor, is_running,
                   cb, delivered, ghosts, submits, clientPc>>

AggActive(o) ==
    /\ pc[o] = "aggActive"
    /\ agg' = [agg EXCEPT ![o].active = Count(agg[o].snapshot, {"ACTIVE"})]
    /\ pc' = [pc EXCEPT ![o] = "aggQueued"]
    /\ UNCHANGED <<nObjs, task, pool, tasks, futures, cancel_flags, executor, is_running,
                   cb, delivered, ghosts, submits, clientPc>>

AggQueued(o) ==
    /\ pc[o] = "aggQueued"
    /\ agg' = [agg EXCEPT ![o].queued = Count(agg[o].snapshot, {"QUEUED"})]
    /\ pc' = [pc EXCEPT ![o] = "aggFailed"]
    /\ UNCHANGED <<nObjs, task, pool, tasks, futures, cancel_flags, executor, is_running,
                   cb, delivered, ghosts, submits, clientPc>>

AggFailed(o) ==
    /\ pc[o] = "aggFailed"
    /\ agg' = [agg EXCEPT ![o].failed = Count(agg[o].snapshot, {"FAILED", "CANCELLED"})]
    /\ pc' = [pc EXCEPT ![o] = "aggDeliver"]
    /\ UNCHANGED <<nObjs, task, pool, tasks, futures, cancel_flags, executor, is_running,
                   cb, delivered, ghosts, submits, clientPc>>

\* A variant that leaves the failed and cancelled tasks out of total_tasks;
\* with it OverallProgressIsTheMean fails.
BuildAggregateOfLiveTasks(o) ==
    [total_tasks |-> Cardinality(agg[o].snapshot) - agg[o].failed,
     completed_tasks |-> agg[o].completed,
     active_tasks |-> agg[o].active,
     queued_tasks |-> agg[o].queued,
     failed_tasks |-> agg[o].failed,
     total_progress |-> SumProgress(agg[o].snapshot)]

\* The AggregateProgress built at download_manager.py:218-243 from the counts
\* and from a last pass over the statuses and percentages;
\* overall_progress is total_progress / total_tasks.
BuildAggregate(o) ==
    [total_tasks |-> Cardinality(agg[o].snapshot),
     completed_tasks |-> agg[o].completed,
     active_tasks |-> agg[o].active,
     queued_tasks |-> agg[o].queued,
     failed_tasks |-> agg[o].failed,
     total_progress |-> SumProgress(agg[o].snapshot)]

\* download_manager.py:218-245
AggDeliver(o) ==
    /\ pc[o] = "aggDeliver"
    /\ lastAggregate' = BuildAggregate(o)
    /\ pc' = [pc EXCEPT ![o] = AfterAggregate(o, agg[o].site)]
    /\ agg' = [agg EXCEPT ![o] = NoAgg]
    /\ UNCHANGED <<nObjs, task, pool, tasks, futures, cancel_flags, executor, is_running,
                   cb, uiPosted, history, batchCompletes, ghosts, submits, clientPc>>

\* The DownloadProgress records Downloader.download passes to the callback.
PendingCb == [status |-> "PENDING", progress |-> 0, error |-> NoError, stage |-> "pending"]
CompletedCb == [status |-> "COMPLETED", progress |-> PROGRESS_DONE, error |-> NoError,
                stage |-> "completed"]
HandlerCb(msg) == [status |-> "FAILED", progress |-> 0, error |-> msg, stage |-> "handler"]
HookCb(st, p) == [status |-> st, progress |-> p, error |-> NoError, stage |-> "hook"]
\* An exception on its way to the except clause of _download_task.
Escaped(msg) == [status |-> "FAILED", progress |-> 0, error |-> msg, stage |-> "escaped"]

\* _download_task calls Downloader.download (download_manager.py:155), which
\* raises before its try block (downloader.py:219-295).
DownloadRaises(o) ==
    /\ pc[o] = "download"
    /\ downloadCalls' = [downloadCalls EXCEPT ![o] = @ + 1]
    /\ cb' = [cb EXCEPT ![o] = Escaped(ErrRaised)]
    /\ pc' = [pc EXCEPT ![o] = "exc"]
    /\ UNCHANGED <<nObjs, task, pool, tasks, futures, cancel_flags, executor, is_running,
                   agg, delivered, cancelledAs, preCancelled, cleared, submits, clientPc>>

\* _download_task calls Downloader.download; extract_info succeeds and the
\* PENDING callback is made (downloader.py:298-312), or extract_info raises
\* and the except clause makes the FAILED callback (downloader.py:328-339).
DownloadBegins(o, ok) ==
    /\ pc[o] = "download"
    /\ downloadCalls' = [downloadCalls EXCEPT ![o] = @ + 1]
    /\ cb' = [cb EXCEPT ![o] = IF ok THEN PendingCb ELSE HandlerCb(ErrDownload)]
    /\ pc' = [pc EXCEPT ![o] = "cbCheck"]
    /\ UNCHANGED <<nObjs, task, pool, tasks, futures, cancel_flags, executor, is_running,
                   agg, delivered, cancelledAs, preCancelled, cleared, submits, clientPc>>

\* While ydl.download runs (downloader.py:314) yt-dlp calls progress_hook, which
\* maps the hook's status ("downloading", "finished", "error") and percentage to
\* a DownloadProgress and calls the callback (downloader.py:249-293).
ProgressHook(o, st, p) ==
    /\ pc[o] = "running"
    /\ cb' = [cb EXCEPT ![o] = HookCb(st, p)]
    /\ pc' = [pc EXCEPT ![o] = "cbCheck"]
    /\ UNCHANGED <<nObjs, task, pool, tasks, futures, cancel_flags, executor, is_running,
                   agg, delivered, ghosts, submits, clientPc>>

\* ydl.download returns and the COMPLETED callback is made (downloader.py:316-324).
DownloadFinishes(o) ==
    /\ pc[o] = "running"
    /\ cb' = [cb EXCEPT ![o] = CompletedCb]
    /\ pc' = [pc EXCEPT ![o] = "cbCheck"]
    /\ UNCHANGED <<nObjs, task, pool, tasks, futures, cancel_flags, executor, is_running,
                   agg, delivered, ghosts, submits, clientPc>>

\* ydl.download raises and the except clause makes the FAILED callback
\* (downloader.py:328-339).
DownloadFails(o) ==
    /\ pc[o] = "running"
    /\ cb' = [cb EXCEPT ![o] = HandlerCb(ErrDownload)]
    /\ pc' = [pc EXCEPT ![o] = "cbCheck"]
    /\ UNCHANGED <<nObjs, task, pool, tasks, futures, cancel_flags, executor, is_running,
                   agg, delivered, ghosts, submits, clientPc>>

\* A variant of progress_callback that never tests the cancellation flag; with
\* it CancelledCallbackOnlyRaises fails.
CallbackCheckIgnoresFlag(o) ==
    /\ pc[o] = "cbCheck"
    /\ cb' = cb
    /\ pc' = [pc EXCEPT ![o] = "cbUpdate"]
    /\ UNCHANGED <<nObjs, task, pool, tasks, futures, cancel_flags, executor, is_running,
                   agg, delivered, ghosts, submits, clientPc>>

\* progress_callback tests the cancellation flag without the lock
\* (download_manager.py:136-137).  Its exception is caught by download's except
\* clause, which makes the FAILED callback (downloader.py:328-339); raised in
\* that callback, it leaves download.
CallbackCheck(o) ==
    /\ pc[o] = "cbCheck"
    /\ IF FlagIsSet(o)
       THEN IF cb[o].stage = "handler"
            THEN /\ cb' = [cb EXCEPT ![o] = Escaped(ErrCancelled)]
                 /\ pc' = [pc EXCEPT ![o] = "exc"]
            ELSE /\ cb' = [cb EXCEPT ![o] = HandlerCb(ErrCancelled)]
                 /\ pc' = pc
       ELSE /\ cb' = cb
            /\ pc' = [pc EXCEPT ![o] = "cbUpdate"]
    /\ UNCHANGED <<nObjs, task, pool, tasks, futures, cancel_flags, executor, is_running,
                   agg, delivered, ghosts, submits, clientPc>>

\* A variant of the locked block that sets a COMPLETED status without the
\* percentage; with it CompletedStaysCompleted fails.
CallbackAssignStatusOnly(t, c) ==
    IF c.status = "COMPLETED"
    THEN [t EXCEPT !.status = "COMPLETED"]
    ELSE IF c.status = "FAILED"
    THEN [t EXCEPT !.progress = c.progress, !.status = "FAILED", !.error = c.error]
    ELSE [t EXCEPT !.progress = c.progress]

\* The locked block of progress_callback (download_manager.py:139-149).
CallbackAssign(t, c) ==
    IF c.status = "COMPLETED"
    THEN [t EXCEPT !.progress = PROGRESS_DONE, !.status = "COMPLETED"]
    ELSE IF c.status = "FAILED"
    THEN [t EXCEPT !.progress = c.progress, !.status = "FAILED", !.error = c.error]
    ELSE [t EXCEPT !.progress = c.progress]

CallbackUpdate(o) ==
    /\ pc[o] = "cbUpdate"
    /\ task' = [task EXCEPT ![o] = CallbackAssign(task[o], cb[o])]
    /\ pc' = [pc EXCEPT ![o] = "cbNotify"]
    /\ UNCHANGED <<nObjs, pool, tasks, futures, cancel_flags, executor, is_running, cb,
                   agg, delivered, ghosts, submits, clientPc>>

\* download_manager.py:151-152
CallbackNotify(o) ==
    /\ pc[o] = "cbNotify"
    /\ NotifyAndSnapshot(o, o, "callback")
    /\ UNCHANGED <<nObjs, task, pool, tasks, futures, cancel_flags, executor, is_running,
                   cb, lastAggregate, history, batchCompletes, ghosts, submits, clientPc>>

\* download returned: the locked block of download_manager.py:162-169.
ReturnAssign(t, success) ==
    IF success
    THEN [t EXCEPT !.status = "COMPLETED", !.progress = PROGRESS_DONE]
    ELSE [t EXCEPT !.status = "FAILED"]

DownloadReturned(o) ==
    /\ pc[o] \in {"retTrue", "retFalse"}
    /\ task' = [task EXCEPT ![o] = ReturnAssign(task[o], pc[o] = "retTrue")]
    /\ pc' = [pc EXCEPT ![o] = "doneNotify"]
    /\ cb' = [cb EXCEPT ![o] = NoCb]
    /\ UNCHANGED <<nObjs, pool, tasks, futures, cancel_flags, executor, is_running, agg,
                   delivered, ghosts, submits, clientPc>>

\* A variant of the except clause that leaves the status as it is; with it
\* EveryTaskEventuallyTerminal fails.
ExceptAssignKeepsStatus(t, flagSet, msg) == [t EXCEPT !.error = msg]

\* A variant of the except clause that decides by the exception's message
\* instead of the flag; with it RaisedDownloadOutcome fails.
ExceptAssignByMessage(t, flagSet, msg) ==
    IF msg = ErrCancelled
    THEN [t EXCEPT !.status = "CANCELLED"]
    ELSE [t EXCEPT !.status = "FAILED", !.error = msg]

\* download raised: the except clause of download_manager.py:171-178.
ExceptAssign(t, flagSet, msg) ==
    IF flagSet
    THEN [t EXCEPT !.status = "CANCELLED"]
    ELSE [t EXCEPT !.status = "FAILED", !.error = msg]

\* A variant of the except clause that fails every task of the batch; with it
\* FaultIsContained fails.
DownloadRaisedFailsBatch(o) ==
    /\ pc[o] = "exc"
    /\ task' = [x \in Objs |-> IF pool[x] = pool[o]
                                THEN [task[x] EXCEPT !.status = "FAILED"]
                                ELSE task[x]]
    /\ pc' = [pc EXCEPT ![o] = "doneNotify"]
    /\ cb' = [cb EXCEPT ![o] = NoCb]
    /\ UNCHANGED <<nObjs, pool, tasks, futures, cancel_flags, executor, is_running, agg,
                   delivered, ghosts, submits, clientPc>>

DownloadRaised(o) ==
    /\ pc[o] = "exc"
    /\ task' = [task EXCEPT ![o] = ExceptAssign(task[o], FlagIsSet(o), cb[o].error)]
    /\ pc' = [pc EXCEPT ![o] = "doneNotify"]
    /\ cb' = [cb EXCEPT ![o] = NoCb]
    /\ UNCHANGED <<nObjs, pool, tasks, futures, cancel_flags, executor, is_running, agg,
                   delivered, ghosts, submits, clientPc>>

\* The future is done and its done-callback runs on the same pool thread:
\* _on_task_done looks the task up by id (None when the id has no entry)
\* (download_manager.py:113-115, 182-183).
DoneNotify(o) ==
    /\ pc[o] = "doneNotify"
    /\ NotifyAndSnapshot(o, tasks[task[o].task_id], "done")
    /\ UNCHANGED <<nObjs, task, pool, tasks, futures, cancel_flags, executor, is_running,
                   cb, lastAggregate, history, batchCompletes, ghosts, submits, clientPc>>

\* A variant of all_done that takes only COMPLETED tasks as done; with it
\* FailedBatchCompletes fails.
AllDoneCompletedOnly == \A o \in RegistryObjs : task[o].status = "COMPLETED"

\* all_done of download_manager.py:187-190
AllDone == \A o \in RegistryObjs : task[o].status \in Terminal

\* download_manager.py:186-190
DoneCheck(o) ==
    /\ pc[o] = "doneCheck"
    /\ pc' = [pc EXCEPT ![o] = IF AllDone THEN "doneFire" ELSE "finished"]
    /\ UNCHANGED <<nObjs, task, pool, tasks, futures, cancel_flags, executor, is_running,
                   cb, agg, delivered, ghosts, submits, clientPc>>

\* download_manager.py:192-195, without the lock
DoneFire(o) ==
    /\ pc[o] = "doneFire"
    /\ is_running' = FALSE
    /\ batchCompletes' = batchCompletes + 1
    /\ pc' = [pc EXCEPT ![o] = "finished"]
    /\ UNCHANGED <<nObjs, task, pool, tasks, futures, cancel_flags, executor, cb, agg,
                   lastAggregate, uiPosted, history, ghosts, submits, clientPc>>

\* -------------------------------------------------- specification
\* A pool thread waits (for a work item, or inside yt-dlp for the network) at
\* these places; everywhere else it is in the middle of manager code.  The
\* client thread is in the middle of manager code between the halves of clear.
Waiting == {"none", "queued", "download", "running", "finished"}

\* cur after a step of thread t: t while it is in the middle of code.
CurAfter(t, pcAfter, clientPcAfter) ==
    IF t = ClientThread
    THEN IF clientPcAfter = "idle" THEN NoThread ELSE t
    ELSE IF pcAfter[t] \in Waiting THEN NoThread ELSE t

\* The schedule: a thread runs freely when the thread that ran last is waiting
\* (or is itself); otherwise it preempts that thread, which the run allows
\* budget.preempts times.  A step of kind "calls", "hooks" or "raises" spends
\* one unit of that bound.
Preempts(t) == cur \notin {NoThread, t}

CanStep(t, kind) ==
    /\ kind # "none" => budget[kind] > 0
    /\ Preempts(t) => budget.preempts > 0

Spend(t, kind) ==
    /\ budget' = [b \in DOMAIN budget |->
                    IF b = kind \/ (b = "preempts" /\ Preempts(t)) THEN budget[b] - 1
                    ELSE budget[b]]
    /\ cur' = CurAfter(t, pc', clientPc')
    /\ UNCHANGED max_workers
    /\ UNCHANGED historyVars
    /\ UNCHANGED <<speedCall, ctorCall>>
    /\ UNCHANGED <<lock, callPc>>

\* A call of the manager's public interface.
ClientCall ==
    /\ CanStep(ClientThread, "calls")
    /\ \/ (\E s \in TaskIds, n \in 0..MaxObjs : SubmitTasks(s, n)) /\ cancelAllRun' = 0
       \/ CancelAll /\ cancelAllRun' = cancelAllRun + 1
       \/ (\E i \in TaskIds : CancelTask(i)) /\ cancelAllRun' = 0
       \/ ClearCancelAll /\ cancelAllRun' = 0
    /\ Spend(ClientThread, "calls")

\* The client thread goes on inside clear().
ClearFinish ==
    /\ CanStep(ClientThread, "none")
    /\ ClearWipe
    /\ cancelAllRun' = 0
    /\ Spend(ClientThread, "none")

\* The UI's event loop handles a posted event.
UiNext ==
    /\ CanStep(ClientThread, "none")
    /\ \E o \in Objs : UiTaskUpdate(o)
    /\ cancelAllRun' = 0
    /\ Spend(ClientThread, "none")

ClientNext == ClientCall \/ ClearFinish \/ UiNext

\* Steps of Downloader.download on the pool thread of o.
DownloaderStep(o) ==
    /\ \/ CanStep(o, "raises") /\ DownloadRaises(o) /\ Spend(o, "raises")
       \/ CanStep(o, "hooks") /\ (\E h \in HookEvents : ProgressHook(o, h[1], h[2]))
                              /\ Spend(o, "hooks")
       \/ /\ CanStep(o, "none")
          /\ \/ \E ok \in BOOLEAN : DownloadBegins(o, ok)
             \/ DownloadFinishes(o)
             \/ DownloadFails(o)
          /\ Spend(o, "none")
    /\ cancelAllRun' = 0

\* Steps of the manager's code on the pool thread of o.
WorkerStep(o) ==
    /\ CanStep(o, "none")
    /\ \/ StartTask(o)
       \/ NotifyActive(o)
       \/ AggCompleted(o)
       \/ AggActive(o)
       \/ AggQueued(o)
       \/ AggFailed(o)
       \/ AggDeliver(o)
       \/ CallbackCheck(o)
       \/ CallbackUpdate(o)
       \/ CallbackNotify(o)
       \/ DownloadReturned(o)
       \/ DownloadRaised(o)
       \/ DoneNotify(o)
       \/ DoneCheck(o)
       \/ DoneFire(o)
    /\ cancelAllRun' = 0
    /\ Spend(o, "none")

PoolThread(o) == WorkerStep(o) \/ DownloaderStep(o)

DownloaderNext == \E o \in Objs : DownloaderStep(o)
WorkerNext == \E o \in Objs : WorkerStep(o)

Next == ClientNext \/ DownloaderNext \/ WorkerNext

Spec == Init /\ [][Next]_vars

\* Fair scheduling: every pool thread that can take a step eventually takes
\* one (a work item is picked up, Downloader.download returns or raises, the
\* lock is granted), and a client thread inside clear() leaves it.  The client
\* is not obliged to make any call.
FairInit ==
    /\ Constructed
    /\ HistoryConstructed
    /\ NoCallsMade
    /\ budget \in Budget(MaxFairCalls, MaxFairPreempts)

Fairness ==
    /\ \A o \in Objs : WF_vars(PoolThread(o))
    /\ WF_vars(ClearFinish)

FairSpec == FairInit /\ [][Next]_vars /\ Fairness

\* ------------------------------------------------ the history ledger
\* _save (history.py:102-112): the file holds both mappings, or the IOError
\* is swallowed and the file is as it was or was truncated by open(..., "w").
Save(pl, sv) ==
    \/ historyFile' = Saved(pl, sv)
    \/ historyFile' = historyFile
    \/ historyFile' = TruncatedFile

\* A variant that takes a playlist without a record for no playlist context;
\* with it AddChangesOneMapping fails.
HasKnownPlaylistContext(playlist_id) ==
    playlist_id # NoPlaylist /\ playlists[playlist_id].exists

\* if playlist_id: (history.py:145)
HasPlaylistContext(playlist_id) == playlist_id # NoPlaylist

\* A variant that forgets the videos the record held; with it
\* RecordingRemovesFromNewVideos fails.
WithOnlyVideo(record, video_id, video, now) ==
    [record EXCEPT !.videos = [v \in VideoIds |-> IF v = video_id THEN video ELSE NoVideo],
                   !.last_downloaded = now]

\* A variant that keeps the record a video id already has; with it
\* AddIsLastWriteWinsUpsert fails.
WithVideoIfNew(record, video_id, video, now) ==
    IF record.videos[video_id] # NoVideo THEN record
    ELSE [record EXCEPT !.videos[video_id] = video, !.last_downloaded = now]

\* playlist.videos[video_id] = video; playlist.last_downloaded = now
\* (history.py:155-156)
WithVideo(record, video_id, video, now) ==
    [record EXCEPT !.videos[video_id] = video, !.last_downloaded = now]

\* add_video_download (history.py:114-161) at time clock + 1.
AddVideoDownload(video_id, content, playlist_id) ==
    LET now == clock + 1
        video == DownloadedVideo(content, now)
        record == IF playlists[playlist_id].exists THEN playlists[playlist_id]
                  ELSE NewPlaylistRecord(now)
    IN /\ clock < MaxAdds
       /\ loadError = "none"
       /\ clock' = now
       /\ IF HasPlaylistContext(playlist_id)
          THEN /\ playlists' = [playlists EXCEPT ![playlist_id] =
                                   WithVideo(record, video_id, video, now)]
               /\ UNCHANGED single_videos
          ELSE /\ single_videos' = [single_videos EXCEPT ![video_id] = video]
               /\ UNCHANGED playlists
       /\ Save(playlists', single_videos')
       /\ query' = IF query.asked
                   THEN [query EXCEPT
                            !.recorded = IF playlist_id = query.playlist_id
                                         THEN @ \cup {video_id} ELSE @,
                            !.stale = TRUE]
                   ELSE query
       /\ lookup' = IF lookup.asked THEN [lookup EXCEPT !.stale = TRUE] ELSE lookup
       /\ UNCHANGED <<loadError, adder>>
       /\ UNCHANGED managerVars

\* A caller of get_new_videos (history.py:177-193) keeps the returned list.
GetNewVideosCall ==
    LET result == GetNewVideos(query.playlist_id, query.ids)
    IN /\ loadError = "none"
       /\ query' = IF query.asked
                   THEN [query EXCEPT !.last = result, !.repeated = TRUE, !.stale = FALSE]
                   ELSE [query EXCEPT !.asked = TRUE, !.first = result, !.last = result]
       /\ UNCHANGED <<playlists, single_videos, historyFile, clock, lookup, loadError, adder>>
       /\ UNCHANGED managerVars

\* A caller of is_video_downloaded (history.py:195-212) keeps the answer.
IsVideoDownloadedCall ==
    /\ loadError = "none"
    /\ lookup' = [lookup EXCEPT !.asked = TRUE, !.stale = FALSE,
                                !.answer = IsVideoDownloaded(lookup.video_id,
                                                             lookup.playlist_id)]
    /\ UNCHANGED <<playlists, single_videos, historyFile, clock, query, loadError, adder>>
    /\ UNCHANGED managerVars

\* The file is replaced or damaged from outside the program.
FileDamaged(kind) ==
    /\ historyFile.state # kind
    /\ historyFile' = DamagedFile(kind)
    /\ UNCHANGED <<playlists, single_videos, clock, query, lookup, loadError, adder>>
    /\ UNCHANGED managerVars

\* A new process constructs a DownloadHistory over the file (history.py:64-100):
\* both mappings start empty and _load fills them from a file _save wrote; an
\* exception the except clause catches empties them again, any other
\* exception leaves __init__ and there is no DownloadHistory.
Restart ==
    LET loaded == historyFile.state = "saved"
    IN /\ loadError' = LoadEscapes(historyFile)
       /\ playlists' = IF loaded THEN historyFile.playlists
                       ELSE [p \in PlaylistIds |-> NoPlaylistRecord]
       /\ single_videos' = IF loaded THEN historyFile.videos
                           ELSE [v \in VideoIds |-> NoVideo]
       /\ query' = IF query.asked THEN [query EXCEPT !.stale = TRUE] ELSE query
       /\ lookup' = IF lookup.asked THEN [lookup EXCEPT !.stale = TRUE] ELSE lookup
       /\ UNCHANGED <<historyFile, clock, adder>>
       /\ UNCHANGED managerVars

HistoryNext ==
    \/ \E v \in VideoIds, c \in Contents, p \in PlaylistIds \cup {NoPlaylist} :
          AddVideoDownload(v, c, p)
    \/ GetNewVideosCall

\* The ledger on its own, from the empty history: calls of add_video_download
\* and of get_new_videos for one playlist id and one id list, in any order.
HistoryInit ==
    /\ Constructed
    /\ NoCallsMade
    /\ max_workers = MIN_WORKERS
    /\ budget \in Budget(MaxCalls, 0)
    /\ playlists = [p \in PlaylistIds |-> NoPlaylistRecord]
    /\ single_videos = [v \in VideoIds |-> NoVideo]
    /\ historyFile = NoFile
    /\ clock = 0
    /\ \E p \in PlaylistIds \cup {NoPlaylist}, ids \in IdLists : query = NoQuery(p, ids)
    /\ lookup = NoLookup(1, NoPlaylist)
    /\ loadError = "none"
    /\ adder = [t \in Adders |-> NoAdder]

HistorySpec == HistoryInit /\ [][HistoryNext]_vars

\* add_video_download called by thread t: now and video are made
\* (history.py:136-143).  DownloadHistory has no lock, so the steps of the
\* calls of several threads interleave.
AddCalled(t, video_id, content, playlist_id) ==
    /\ adder[t].pc = "out"
    /\ clock < MaxAdds
    /\ clock' = clock + 1
    /\ adder' = [adder EXCEPT ![t] = [NoAdder EXCEPT !.pc = "context",
                                                     !.video_id = video_id,
                                                     !.content = content,
                                                     !.playlist_id = playlist_id,
                                                     !.now = clock + 1]]
    /\ UNCHANGED <<playlists, single_videos, historyFile, query, lookup, loadError>>
    /\ UNCHANGED managerVars

\* The tests at history.py:145-146.
AddTestsContext(t) ==
    /\ adder[t].pc = "context"
    /\ adder' = [adder EXCEPT ![t].pc =
                    IF ~HasPlaylistContext(adder[t].playlist_id) THEN "store"
                    ELSE IF playlists[adder[t].playlist_id].exists THEN "store"
                    ELSE "create"]
    /\ UNCHANGED <<playlists, single_videos, historyFile, clock, query, lookup, loadError>>
    /\ UNCHANGED managerVars

\* self._playlists[playlist_id] = PlaylistRecord(...) (history.py:147-153)
AddCreatesRecord(t) ==
    /\ adder[t].pc = "create"
    /\ playlists' = [playlists EXCEPT ![adder[t].playlist_id] =
                        NewPlaylistRecord(adder[t].now)]
    /\ adder' = [adder EXCEPT ![t].pc = "store"]
    /\ UNCHANGED <<single_videos, historyFile, clock, query, lookup, loadError>>
    /\ UNCHANGED managerVars

\* history.py:155-156, or line 159 without a playlist context.
AddStores(t) ==
    LET a == adder[t]
        video == DownloadedVideo(a.content, a.now)
    IN /\ a.pc = "store"
       /\ IF HasPlaylistContext(a.playlist_id)
          THEN /\ playlists' = [playlists EXCEPT ![a.playlist_id] =
                                   WithVideo(playlists[a.playlist_id], a.video_id, video,
                                             a.now)]
               /\ UNCHANGED single_videos
          ELSE /\ single_videos' = [single_videos EXCEPT ![a.video_id] = video]
               /\ UNCHANGED playlists
       /\ adder' = [adder EXCEPT ![t].pc = "save"]
       /\ UNCHANGED <<historyFile, clock, query, lookup, loadError>>
       /\ UNCHANGED managerVars

\* _save builds data from both mappings (history.py:105-108).
SaveBuildsData(t) ==
    /\ adder[t].pc = "save"
    /\ adder' = [adder EXCEPT ![t].pc = "write", ![t].data = Saved(playlists, single_videos)]
    /\ UNCHANGED <<playlists, single_videos, historyFile, clock, query, lookup, loadError>>
    /\ UNCHANGED managerVars

\* _save writes data (history.py:109-110) and the call returns.
SaveWrites(t) ==
    /\ adder[t].pc = "write"
    /\ historyFile' = adder[t].data
    /\ adder' = [adder EXCEPT ![t].pc = "returned"]
    /\ UNCHANGED <<playlists, single_videos, clock, query, lookup, loadError>>
    /\ UNCHANGED managerVars

\* The write fails, the IOError is swallowed (history.py:111-112) and the call
\* returns.
SaveFails(t) ==
    /\ adder[t].pc = "write"
    /\ historyFile' \in {historyFile, TruncatedFile}
    /\ adder' = [adder EXCEPT ![t].pc = "returned", ![t].failed = TRUE]
    /\ UNCHANGED <<playlists, single_videos, clock, query, lookup, loadError>>
    /\ UNCHANGED managerVars

AdderNext(t) ==
    \/ \E v \in VideoIds, c \in Contents, p \in PlaylistIds \cup {NoPlaylist} :
          AddCalled(t, v, c, p)
    \/ AddTestsContext(t)
    \/ AddCreatesRecord(t)
    \/ AddStores(t)
    \/ SaveBuildsData(t)
    \/ SaveWrites(t)
    \/ SaveFails(t)

\* Threads that share one DownloadHistory and call add_video_download once
\* each, from the empty history.
HistoryThreadsNext == \E t \in Adders : AdderNext(t)

HistoryThreadsInit ==
    /\ Init
    /\ max_workers = MIN_WORKERS

HistoryThreadsSpec == HistoryThreadsInit /\ [][HistoryThreadsNext]_vars

\* The ledger and its file: the file is damaged from outside, a new process
\* constructs a DownloadHistory over it and calls add_video_download and, for
\* one video id and one playlist context, is_video_downloaded.
HistoryFileNext ==
    \/ \E v \in VideoIds, c \in Contents, p \in PlaylistIds \cup {NoPlaylist} :
          AddVideoDownload(v, c, p)
    \/ IsVideoDownloadedCall
    \/ \E kind \in DamagedFiles : FileDamaged(kind)
    \/ Restart

HistoryFileInit ==
    /\ Constructed
    /\ NoCallsMade
    /\ max_workers = MIN_WORKERS
    /\ budget \in Budget(MaxCalls, 0)
    /\ playlists = [p \in PlaylistIds |-> NoPlaylistRecord]
    /\ single_videos = [v \in VideoIds |-> NoVideo]
    /\ historyFile = NoFile
    /\ clock = 0
    /\ query = NoQuery(NoPlaylist, <<>>)
    /\ \E v \in VideoIds, p \in PlaylistIds \cup {NoPlaylist} : lookup = NoLookup(v, p)
    /\ loadError = "none"
    /\ adder = [t \in Adders |-> NoAdder]

HistoryFileSpec == HistoryFileInit /\ [][HistoryFileNext]_vars

\* ------------------------------------------- the two numerical functions
\* _sum_speeds is called with the task list drawn in the initial state.
SumSpeedsCall ==
    /\ ~speedCall.called
    /\ speedCall' = [speedCall EXCEPT !.called = TRUE,
                                      !.total_speed = SumSpeeds(speedCall.tasks)]
    /\ UNCHANGED <<ctorCall, lock, callPc>>
    /\ UNCHANGED <<max_workers, nObjs, task, pool, tasks, futures, cancel_flags, executor,
                   is_running, workerLocals, delivered, ghosts, submits, budget,
                   cancelAllRun, clientPc, cur>>
    /\ UNCHANGED historyVars

\* DownloadManager(downloader, max_workers=m) is constructed with the argument
\* drawn in the initial state (download_manager.py:81).
ConstructorCall ==
    /\ ~ctorCall.called
    /\ ctorCall' = [ctorCall EXCEPT !.called = TRUE,
                                    !.bound = ClampWorkers(ctorCall.max_workers)]
    /\ UNCHANGED <<speedCall, lock, callPc>>
    /\ UNCHANGED <<max_workers, nObjs, task, pool, tasks, futures, cancel_flags, executor,
                   is_running, workerLocals, delivered, ghosts, submits, budget,
                   cancelAllRun, clientPc, cur>>
    /\ UNCHANGED historyVars

ArithmeticNext == SumSpeedsCall \/ ConstructorCall

ArithmeticInit ==
    /\ Constructed
    /\ HistoryConstructed
    /\ max_workers = MIN_WORKERS
    /\ budget \in Budget(MaxCalls, 0)
    /\ \E ts \in SpeedTaskLists : speedCall = NoSpeedCall(ts)
    /\ \E m \in (0 - MaxWorkerRequest)..MaxWorkerRequest : ctorCall = NoCtorCall(m)
    /\ lock = NoThread
    /\ callPc = "idle"

ArithmeticSpec == ArithmeticInit /\ [][ArithmeticNext]_vars

\* ------------------------------------------- the lock, block by block
\* The same threads and the same code, with self._lock as a variable: a thread
\* enters a `with self._lock` block in one step (the lock must be free) and
\* runs the block and leaves it in the next; what lies outside the blocks is
\* run without the lock.

\* A variant in which the task notifications are made inside the blocks that
\* precede them; with it LockHeldOnlyInShortBlocks fails.
LockedBlocksWithNotify ==
    {"queued", "aggSnapshot", "cbUpdate", "retTrue", "retFalse", "exc", "doneCheck",
     "notifyActive", "cbNotify", "doneNotify"}

\* A variant in which the pool threads take no lock at all; with it
\* NoThreadWaitsForItself fails.
NoLockedBlocks == {}

\* The places of a pool thread whose next statement is `with self._lock`
\* (download_manager.py:128, 207, 139, 162, 172, 186).
LockedBlocks == {"queued", "aggSnapshot", "cbUpdate", "retTrue", "retFalse", "exc", "doneCheck"}

\* The call site of the notifications a pool thread is about to make.
NotifySite(o) ==
    IF pc[o] = "notifyActive" THEN "active"
    ELSE IF pc[o] = "cbNotify" THEN "callback"
    ELSE "done"

\* _notify_task_update (download_manager.py:197-200) at lines 130, 151 and 182;
\* _on_task_done looks the task up by its id, without the lock.
NotifyTaskUpdate(o) ==
    /\ pc[o] \in {"notifyActive", "cbNotify", "doneNotify"}
    /\ LET t == IF pc[o] = "doneNotify" THEN tasks[task[o].task_id] ELSE o
       IN  uiPosted' = IF t = 0 THEN uiPosted ELSE uiPosted \cup {t}
    /\ agg' = [agg EXCEPT ![o] = [NoAgg EXCEPT !.site = NotifySite(o)]]
    /\ pc' = [pc EXCEPT ![o] = "aggSnapshot"]
    /\ UNCHANGED <<nObjs, task, pool, tasks, futures, cancel_flags, executor, is_running,
                   cb, lastAggregate, history, batchCompletes, ghosts, submits, clientPc>>

\* The locked copy of the registry that opens _notify_aggregate_update, and
\* its return when the copy is empty (download_manager.py:207-211).
AggSnapshot(o) ==
    /\ pc[o] = "aggSnapshot"
    /\ IF RegistryObjs = {}
       THEN /\ pc' = [pc EXCEPT ![o] = AfterAggregate(o, agg[o].site)]
            /\ agg' = [agg EXCEPT ![o] = NoAgg]
       ELSE /\ pc' = [pc EXCEPT ![o] = "aggCompleted"]
            /\ agg' = [agg EXCEPT ![o].snapshot = RegistryObjs]
    /\ UNCHANGED <<nObjs, task, pool, tasks, futures, cancel_flags, executor, is_running,
                   cb, delivered, ghosts, submits, clientPc>>

\* The future of o is done: _download_task has returned or raised.
FutureDone(o) ==
    \/ pc[o] \in {"doneNotify", "doneCheck", "doneFire", "finished"}
    \/ /\ pc[o] \in {"aggSnapshot", "aggCompleted", "aggActive", "aggQueued", "aggFailed",
                   "aggDeliver"}
       /\ agg[o].site = "done"

\* What a step of the lock's model leaves alone.
LockFrame ==
    /\ UNCHANGED <<max_workers, cancelAllRun, speedCall, ctorCall>>
    /\ UNCHANGED historyVars

\* The schedule of Spend, a thread that holds the lock or is inside a call
\* being in the middle of code.
SpendHolding(t, kind) ==
    /\ budget' = [b \in DOMAIN budget |->
                    IF b = kind \/ (b = "preempts" /\ Preempts(t)) THEN budget[b] - 1
                    ELSE budget[b]]
    /\ cur' = IF lock' = t \/ (t = ClientThread /\ callPc' # "idle")
              THEN t
              ELSE CurAfter(t, pc', clientPc')
    /\ LockFrame

\* Thread t enters a `with self._lock` block: threading.Lock.acquire returns
\* when no thread holds the lock.
Acquire(t) ==
    /\ lock = NoThread
    /\ lock' = t
    /\ UNCHANGED <<nObjs, task, pool, tasks, futures, cancel_flags, executor, is_running,
                   workerLocals, delivered, ghosts, submits, clientPc, callPc>>

\* The blocks and the unlocked code of a pool thread.
PoolCode(o) ==
    \/ StartTask(o)
    \/ NotifyTaskUpdate(o)
    \/ AggSnapshot(o)
    \/ AggCompleted(o)
    \/ AggActive(o)
    \/ AggQueued(o)
    \/ AggFailed(o)
    \/ AggDeliver(o)
    \/ CallbackCheck(o)
    \/ CallbackUpdate(o)
    \/ DownloadReturned(o)
    \/ DownloadRaised(o)
    \/ DoneCheck(o)
    \/ DoneFire(o)

\* A pool thread at a block takes the lock (a work item is taken when a
\* thread of its pool is free), then runs the block and releases the lock.
PoolEnters(o) ==
    /\ CanStep(o, "none")
    /\ pc[o] \in LockedBlocks
    /\ pc[o] = "queued" =>
          IsHeadOfQueue(o) /\ Cardinality(Running(pool[o])) < max_workers
    /\ Acquire(o)
    /\ SpendHolding(o, "none")

PoolBlock(o) ==
    /\ CanStep(o, "none")
    /\ pc[o] \in LockedBlocks
    /\ lock = o
    /\ PoolCode(o)
    /\ lock' = NoThread
    /\ callPc' = callPc
    /\ SpendHolding(o, "none")

PoolUnlocked(o) ==
    /\ CanStep(o, "none")
    /\ pc[o] \notin LockedBlocks
    /\ PoolCode(o)
    /\ UNCHANGED <<lock, callPc>>
    /\ SpendHolding(o, "none")

\* Downloader.download on the pool thread of o.
PoolDownloads(o) ==
    /\ UNCHANGED <<lock, callPc>>
    /\ \/ CanStep(o, "raises") /\ DownloadRaises(o) /\ SpendHolding(o, "raises")
       \/ CanStep(o, "hooks") /\ (\E h \in HookEvents : ProgressHook(o, h[1], h[2]))
                              /\ SpendHolding(o, "hooks")
       \/ /\ CanStep(o, "none")
          /\ \/ \E ok \in BOOLEAN : DownloadBegins(o, ok)
             \/ DownloadFinishes(o)
             \/ DownloadFails(o)
          /\ SpendHolding(o, "none")

\* The client calls submit_tasks, cancel_all, cancel_task, get_completed_ids
\* or clear, or goes on inside clear: each begins with `with self._lock`
\* (download_manager.py:100, 275, 294, 313, 322).
ClientEnters ==
    /\ CanStep(ClientThread, IF clientPc = "idle" THEN "calls" ELSE "none")
    /\ callPc = "idle"
    /\ Acquire(ClientThread)
    /\ SpendHolding(ClientThread, IF clientPc = "idle" THEN "calls" ELSE "none")

\* submit_tasks inside its block: the flag, the executor and, for every task,
\* the three entries and the work item (download_manager.py:101-112).
SubmitRegisters ==
    /\ callPc = "idle"
    /\ lock = ClientThread
    /\ \E s \in TaskIds, n \in 0..MaxObjs : SubmitTasks(s, n)
    /\ callPc' = "attach"
    /\ lock' = lock

\* add_done_callback (download_manager.py:113-115), still inside the block.
\* A callback added to a future that is already done is run at once, by the
\* calling thread: _on_task_done would then reach `with self._lock` (line 207
\* or 186) on the thread that holds the lock, and wait for itself.
SubmitAttaches ==
    /\ callPc = "attach"
    /\ lock = ClientThread
    /\ IF \E o \in Objs : pool[o] = submits /\ FutureDone(o)
       THEN callPc' = "stuck" /\ lock' = lock
       ELSE callPc' = "idle" /\ lock' = NoThread
    /\ UNCHANGED <<nObjs, task, pool, tasks, futures, cancel_flags, executor, is_running,
                   workerLocals, delivered, ghosts, submits, clientPc>>

\* The block of cancel_all (download_manager.py:275-283), called by the client
\* or by clear().
CancelAllBlock(inClear) ==
    /\ callPc = "idle"
    /\ clientPc = "idle"
    /\ lock = ClientThread
    /\ submits > 0
    /\ cancel_flags' = SetAllFlags
    /\ task' = [o \in Objs |->
                  IF o \in RegistryObjs
                  THEN [task[o] EXCEPT !.status = CancelStatus(@)]
                  ELSE task[o]]
    /\ callPc' = "tail"
    /\ clientPc' = IF inClear THEN "clear" ELSE "idle"
    /\ lock' = NoThread
    /\ UNCHANGED <<nObjs, pool, tasks, futures, executor, is_running, workerLocals,
                   delivered, ghosts, submits>>

\* What cancel_all does after its block (download_manager.py:285-290).
CancelAllTail ==
    /\ callPc = "tail"
    /\ executor' = 0
    /\ is_running' = FALSE
    /\ callPc' = "idle"
    /\ lock' = lock
    /\ UNCHANGED <<nObjs, task, pool, tasks, futures, cancel_flags, workerLocals,
                   delivered, ghosts, submits, clientPc>>

\* get_completed_ids (download_manager.py:311-317): a read inside a block.
GetCompletedIdsBlock ==
    /\ callPc = "idle"
    /\ clientPc = "idle"
    /\ lock = ClientThread
    /\ lock' = NoThread
    /\ UNCHANGED <<nObjs, task, pool, tasks, futures, cancel_flags, executor, is_running,
                   workerLocals, delivered, ghosts, submits, clientPc, callPc>>

\* The client goes on inside a call.
ClientGoesOn ==
    /\ CanStep(ClientThread, "none")
    /\ \/ SubmitRegisters
       \/ SubmitAttaches
       \/ \E inClear \in BOOLEAN : CancelAllBlock(inClear)
       \/ CancelAllTail
       \/ /\ callPc = "idle"
          /\ lock = ClientThread
          /\ \/ \E i \in TaskIds : CancelTask(i)
             \/ ClearWipe
          /\ lock' = NoThread
          /\ callPc' = callPc
       \/ GetCompletedIdsBlock
    /\ SpendHolding(ClientThread, "none")

LockNext ==
    \/ ClientEnters
    \/ ClientGoesOn
    \/ \E o \in Objs : PoolEnters(o)
    \/ \E o \in Objs : PoolBlock(o)
    \/ \E o \in Objs : PoolUnlocked(o)
    \/ \E o \in Objs : PoolDownloads(o)

LockSpec == Init /\ [][LockNext]_vars

\* ------------------------------------------------------------ claims

\* Every pool thread has returned from its work item and its done-callback,
\* and the client is not inside a call.
Quiescent ==
    /\ clientPc = "idle"
    /\ \A o \in Objs : pc[o] \in {"none", "finished"}

\* C1: on_batch_complete is invoked exactly once for every batch passed to
\* submit_tasks: never more often than batches were submitted and, once all
\* workers have returned, exactly as often.
BatchCompleteExactlyOnce ==
    /\ batchCompletes <= submits
    /\ Quiescent => batchCompletes = submits

\* C2: the status of a task only moves forward: a status that is COMPLETED,
\* FAILED or CANCELLED never changes again, and an ACTIVE task never goes back
\* to QUEUED.
StatusOnlyMovesForward ==
    [][\A o \in Objs :
          /\ task[o].status \in Terminal => task'[o].status = task[o].status
          /\ task[o].status = "ACTIVE" => task'[o].status # "QUEUED"]_vars

\* C3: a task that cancel_task cancelled while it was ACTIVE has status
\* CANCELLED once its worker has returned.
CancelledActiveTaskEndsCancelled ==
    \A o \in Objs :
        (cancelledAs[o] = <<"cancel_task", "ACTIVE">> /\ pc[o] = "finished")
            => task[o].status = "CANCELLED"

\* C4: in every AggregateProgress delivered to on_aggregate_update the four
\* counts add up to total_tasks.
AggregateCountsAddUp ==
    lastAggregate.completed_tasks + lastAggregate.active_tasks
        + lastAggregate.queued_tasks + lastAggregate.failed_tasks
    = lastAggregate.total_tasks

\* C5: at most max_workers tasks of the registry are ACTIVE.
AtMostWActive == Count(RegistryObjs, {"ACTIVE"}) <= max_workers

\* A batch is in flight: some task of the registry is QUEUED or ACTIVE.
InFlight == \E o \in RegistryObjs : task[o].status \in {"QUEUED", "ACTIVE"}

\* C6: a submit_tasks call made while a batch is in flight changes neither the
\* registry, nor the flags, nor the futures, nor the executor, and schedules
\* no task.
SubmitInFlightIsNoOp ==
    [][(submits' # submits /\ InFlight)
          => UNCHANGED <<tasks, cancel_flags, futures, executor, pool, pc>>]_vars

\* C7: the tasks of a batch that cancel_all cancelled before any worker had
\* started one of them are never COMPLETED, get no history record, and are
\* CANCELLED once their workers have returned.
CancelAllBeforeStartCancelsAll ==
    \A o \in preCancelled :
        /\ task[o].status # "COMPLETED"
        /\ o \notin history
        /\ pc[o] = "finished" => task[o].status = "CANCELLED"

\* C8: a task that was QUEUED when cancel_all or cancel_task cancelled it is
\* never started: it does not become ACTIVE and Downloader.download is not
\* invoked for it.
CancelledQueuedTaskNeverStarts ==
    \A o \in Objs :
        cancelledAs[o][2] = "QUEUED"
            => (task[o].status # "ACTIVE" /\ downloadCalls[o] = 0)

\* C9 (liveness): under fair scheduling of the workers, and with every
\* Downloader.download call returning or raising, every task submitted with
\* submit_tasks eventually has a terminal status, its worker having returned.
EveryTaskEventuallyTerminal ==
    \A o \in Objs :
        (pc[o] = "queued") ~> (pc[o] = "finished" /\ task[o].status \in Terminal)

\* More tasks than workers: both tasks of one batch went through a pool of one
\* thread and ended in a terminal status.
QueuedBehindOneWorkerTerminal ==
    /\ max_workers = 1
    /\ \A o \in Objs : /\ pool[o] = 1
                      /\ pc[o] = "finished"
                      /\ task[o].status \in Terminal

\* A batch (the tasks given to one executor) whose tasks all ended FAILED,
\* while the done-callback of one of them has still to make its test.
BatchObjs(p) == {o \in Objs : pool[o] = p}
AggPcs == {"aggCompleted", "aggActive", "aggQueued", "aggFailed", "aggDeliver"}
\* The done-callback of o has not made its test yet.
BeforeDoneCheck(o) ==
    \/ pc[o] \in {"doneNotify", "doneCheck"}
    \/ pc[o] \in AggPcs /\ agg[o].site = "done"
\* _download_task has returned for o.
TaskReturned(o) == BeforeDoneCheck(o) \/ pc[o] \in {"doneFire", "finished"}
FailedBatchPending ==
    \E p \in Pools :
        /\ BatchObjs(p) # {}
        /\ \A o \in BatchObjs(p) : task[o].status = "FAILED" /\ TaskReturned(o)
        /\ \E o \in BatchObjs(p) : BeforeDoneCheck(o)

\* C10 (liveness): when every task of a non-empty batch has ended FAILED,
\* on_batch_complete is invoked afterwards: the done-callbacks that are still
\* to make their test cannot all conclude that the batch is not done.
FailedBatchCompletes ==
    \A k \in 0..MaxObjs :
        (FailedBatchPending /\ batchCompletes = k) ~> (batchCompletes > k)


\* A batch of two tasks that both ended FAILED, for which on_batch_complete
\* was invoked.
FailedBatchCompleted ==
    /\ \A o \in Objs : /\ pool[o] = 1
                      /\ pc[o] = "finished"
                      /\ task[o].status = "FAILED"
    /\ batchCompletes > 0

CancelAllIdempotent ==
    [][(cancelAllRun >= 1 /\ cancelAllRun' = cancelAllRun + 1)
          => UNCHANGED <<task, cancel_flags, executor, is_running>>]_vars

\* cancel_all was called twice in a row on a registry with a cancelled task.
CancelAllCalledTwice ==
    /\ cancelAllRun = 2
    /\ \E o \in RegistryObjs : cancelledAs[o][1] = "cancel_all" /\ FlagIsSet(o)

\* C13: cancel_task(i) changes no status when i has no entry or when the task
\* of i is already terminal, and it never changes the status of another task
\* or the flag of another id.
CancelTaskFrame ==
    [][\A i \in TaskIds :
          CancelTask(i) =>
              /\ (tasks[i] = 0 \/ task[tasks[i]].status \in Terminal) => task' = task
              /\ \A o \in Objs : o # tasks[i] => task'[o] = task[o]
              /\ \A j \in TaskIds : j # i => cancel_flags'[j] = cancel_flags[j]]_vars

\* cancel_task was called for a task that was already COMPLETED, while another
\* task of the same batch is in flight with its flag unset.
CancelTaskHitCompleted ==
    \E o1, o2 \in RegistryObjs :
        /\ pool[o1] = pool[o2]
        /\ task[o1].status = "COMPLETED"
        /\ FlagIsSet(o1)
        /\ cancelledAs[o1] = NotCancelled
        /\ task[o2].status \in {"QUEUED", "ACTIVE"}
        /\ cancel_flags[task[o2].task_id] = "clear"

\* C14: a task that was QUEUED or ACTIVE, with a progress callback still to
\* come, when clear() was called is not downloaded to completion afterwards:
\* its download does not return True and it does not end COMPLETED.
ClearStopsInFlightWork ==
    \A o \in cleared :
        /\ pc[o] # "retTrue"
        /\ pc[o] = "finished" => task[o].status # "COMPLETED"

\* The step in which _download_task deals with a download of o that returned
\* False or raised.
FaultHandled(o) == DownloadRaised(o) \/ (pc[o] = "retFalse" /\ DownloadReturned(o))

\* C15: when the download of a task returns False or raises, _download_task
\* changes that task only: no other task and no cancellation flag changes, the
\* registry stays as it is, and the worker leaves _download_task normally, its
\* future done, free for the next queued task.
FaultIsContained ==
    [][\A o \in Objs :
          FaultHandled(o) =>
              /\ \A o2 \in Objs : o2 # o => task'[o2] = task[o2]
              /\ task'[o].task_id = task[o].task_id
              /\ task'[o].status \in {"FAILED", "CANCELLED"}
              /\ UNCHANGED <<cancel_flags, tasks, futures, executor>>
              /\ \A o2 \in Objs : o2 # o => pc'[o2] = pc[o2]
              /\ pc'[o] = "doneNotify"]_vars

\* With one worker, the first task of a batch failed on an exception and the
\* worker went on to download the second.
WorkerSurvivedFault ==
    /\ max_workers = 1
    /\ \E o1, o2 \in Objs :
          /\ o1 < o2 /\ pool[o1] = pool[o2]
          /\ pc[o1] = "finished"
          /\ task[o1].status = "FAILED" /\ task[o1].error = ErrRaised
          /\ downloadCalls[o2] = 1
          /\ task[o2].status = "COMPLETED"

\* C16: when the download of a task raises, the task becomes CANCELLED if its
\* flag is set at that moment, whatever the message, and FAILED with the
\* message in task.error otherwise; download is invoked at most once per task.
RaisedDownloadOutcome ==
    /\ [][\A o \in Objs :
            DownloadRaised(o) =>
                IF FlagIsSet(o)
                THEN task'[o].status = "CANCELLED"
                ELSE task'[o].status = "FAILED" /\ task'[o].error = cb[o].error]_vars
    /\ [](\A o \in Objs : downloadCalls[o] <= 1)

\* One download raised without the flag set and its task is FAILED with the
\* message; another was cancelled while ACTIVE and its task is CANCELLED.
RaisedBothWays ==
    \E o1, o2 \in Objs :
        /\ pc[o1] = "finished" /\ downloadCalls[o1] = 1
        /\ task[o1].status = "FAILED" /\ task[o1].error = ErrRaised
        /\ pc[o2] = "finished" /\ downloadCalls[o2] = 1
        /\ cancelledAs[o2][2] = "ACTIVE" /\ FlagIsSet(o2)
        /\ task[o2].status = "CANCELLED"

FinalAggregateIsTrue ==
    (Quiescent /\ RegistryObjs # {}) =>
        /\ lastAggregate.total_tasks = Cardinality(RegistryObjs)
        /\ lastAggregate.completed_tasks = Count(RegistryObjs, {"COMPLETED"})
        /\ lastAggregate.failed_tasks = Count(RegistryObjs, {"FAILED", "CANCELLED"})
        /\ lastAggregate.active_tasks = 0
        /\ lastAggregate.queued_tasks = 0

\* The positions of ids whose element is not in the set downloaded.
KeptPositions(ids, downloaded) == {i \in 1..Len(ids) : ids[i] \notin downloaded}
\* The k-th of these positions, counted from the front of ids.
KthKept(ids, downloaded, k) ==
    CHOOSE i \in KeptPositions(ids, downloaded) :
        Cardinality({j \in KeptPositions(ids, downloaded) : j <= i}) = k

\* The list get_new_videos returned is the answer for the present history.
Answered == query.asked /\ ~query.stale

\* C19: the list get_new_videos(playlist_id, ids) returns holds exactly the
\* elements of ids that are not in get_downloaded_video_ids(playlist_id), as
\* often and in the same order as in ids: of N ids with K recorded positions
\* it returns the other N - K.
NewVideosAreTheUnrecordedIds ==
    Answered =>
        LET downloaded == GetDownloadedVideoIds(query.playlist_id)
            kept == KeptPositions(query.ids, downloaded)
        IN /\ Len(query.last) = Cardinality(kept)
           /\ Len(query.last) =
                  Len(query.ids) - Cardinality({i \in 1..Len(query.ids) : query.ids[i] \in downloaded})
           /\ \A k \in 1..Len(query.last) :
                  query.last[k] = query.ids[KthKept(query.ids, downloaded, k)]

\* Witness of C19: of three ids the middle one is recorded under the playlist,
\* and the two others come back in the order of the list, not of the ids.
NewVideosSkipRecordedMiddle ==
    /\ Answered
    /\ query.playlist_id \in PlaylistIds
    /\ Len(query.ids) = 3
    /\ query.ids[2] \in GetDownloadedVideoIds(query.playlist_id)
    /\ Len(query.last) = 2
    /\ query.last[1] > query.last[2]
    /\ Keys(single_videos) # {}

\* The list ids without the elements that are in the set S.
Without(ids, S) ==
    LET NotInS(vid) == vid \notin S
    IN SelectSeq(ids, NotInS)

\* C20: after add_video_download was called under playlist P for the videos
\* of a set S, in any order and any number of times, get_new_videos(P, ids)
\* returns what it returned before without the elements of S, in the same
\* order; with nothing recorded in between it returns the same list.
RecordingRemovesFromNewVideos ==
    (Answered /\ query.playlist_id \in PlaylistIds) =>
        query.last = Without(query.first, query.recorded)

\* Witness of C20: get_new_videos was called again after one video of its
\* first answer was recorded under the playlist twice (two calls of
\* add_video_download left nothing else in the ledger), and two videos are
\* still new.
NewVideosAfterRecordingTwice ==
    /\ Answered
    /\ query.repeated
    /\ query.playlist_id \in PlaylistIds
    /\ Len(query.first) = 3
    /\ Len(query.last) = 2
    /\ query.last[1] > query.last[2]
    /\ clock = 2
    /\ Cardinality(query.recorded) = 1
    /\ Keys(playlists[query.playlist_id].videos) = query.recorded
    /\ Keys(single_videos) = {}
    /\ \A p \in PlaylistIds \ {query.playlist_id} : ~playlists[p].exists

\* The answer is_video_downloaded gave is the answer for the present ledger.
LookedUp == lookup.asked /\ ~lookup.stale

\* The playlists under which video v is recorded.
RecordedUnder(v) == {p \in PlaylistIds : v \in Keys(playlists[p].videos)}

\* C21: is_video_downloaded keeps the contexts apart: a video recorded under a
\* playlist only is not downloaded for a query without playlist context, and
\* a video recorded as standalone only is not downloaded for a query with a
\* playlist context, whether the history knows that playlist or not.
LookupKeepsContextsApart ==
    LookedUp =>
        /\ (/\ lookup.playlist_id = NoPlaylist
            /\ RecordedUnder(lookup.video_id) # {}
            /\ lookup.video_id \notin Keys(single_videos)) => ~lookup.answer
        /\ (/\ lookup.playlist_id \in PlaylistIds
            /\ RecordedUnder(lookup.video_id) = {}
            /\ lookup.video_id \in Keys(single_videos)) => ~lookup.answer

\* The video ids recorded in context p: a playlist, or no playlist.
RecordedIn(p) == IF p = NoPlaylist THEN Keys(single_videos) ELSE Keys(playlists[p].videos)
\* The same after the step.
RecordedInNext(p) == IF p = NoPlaylist THEN Keys(single_videos') ELSE Keys(playlists'[p].videos)
\* The record of video v in context p after the step.
RecordNext(v, p) == IF p = NoPlaylist THEN single_videos'[v] ELSE playlists'[p].videos[v]

\* C22: add_video_download is a last-write-wins upsert: after a call the
\* context holds for the video id the record of this call, made at the time of
\* this call; a call for an id the context already holds leaves the set of
\* recorded ids as it was; and the playlist's last_downloaded is the time of
\* the call.
AddIsLastWriteWinsUpsert ==
    [][\A v \in VideoIds, c \in Contents, p \in PlaylistIds \cup {NoPlaylist} :
          AddVideoDownload(v, c, p) =>
              /\ RecordNext(v, p) = DownloadedVideo(c, clock')
              /\ clock' > clock
              /\ RecordedInNext(p) = RecordedIn(p) \cup {v}
              /\ v \in RecordedIn(p) => RecordedInNext(p) = RecordedIn(p)
              /\ p # NoPlaylist => playlists'[p].last_downloaded = clock']_vars

\* Witness of C22: a video was recorded twice under one playlist with
\* different values; the file, whose second write failed, still has the first
\* record, the ledger has the second and the time of the second call.
SecondRecordReplacedFirst ==
    \E p \in PlaylistIds, v \in VideoIds :
        /\ clock = 2
        /\ historyFile.state = "saved"
        /\ historyFile.playlists[p].videos[v].downloaded_at = 1
        /\ playlists[p].videos[v].downloaded_at = 2
        /\ playlists[p].videos[v].content # historyFile.playlists[p].videos[v].content
        /\ playlists[p].last_downloaded = 2
        /\ Keys(playlists[p].videos) = {v}

\* C25: constructing a DownloadHistory over a corrupt or unreadable file
\* never fails: no exception leaves the constructor and the ledger is empty.
CorruptFileLoadsEmpty ==
    [][(Restart /\ historyFile.state \in CorruptFiles) =>
          /\ loadError' = "none"
          /\ playlists' = [p \in PlaylistIds |-> NoPlaylistRecord]
          /\ single_videos' = [v \in VideoIds |-> NoVideo]]_vars

\* C23: one add_video_download call changes one mapping: with a playlist
\* context the video is added to that playlist's record, and the standalone
\* mapping, every other playlist's record and the other videos of the record
\* stay as they are; without a playlist context the video is added to the
\* standalone mapping, whose other videos and every playlist record stay as
\* they are.
AddChangesOneMapping ==
    [][\A v \in VideoIds, c \in Contents, p \in PlaylistIds \cup {NoPlaylist} :
          AddVideoDownload(v, c, p) =>
              IF p # NoPlaylist
              THEN /\ v \in Keys(playlists'[p].videos)
                   /\ single_videos' = single_videos
                   /\ \A p2 \in PlaylistIds \ {p} : playlists'[p2] = playlists[p2]
                   /\ \A v2 \in VideoIds \ {v} :
                          playlists'[p].videos[v2] = playlists[p].videos[v2]
              ELSE /\ v \in Keys(single_videos')
                   /\ playlists' = playlists
                   /\ \A v2 \in VideoIds \ {v} : single_videos'[v2] = single_videos[v2]]_vars

\* Witness of C23: one video id was recorded without a playlist and then
\* under a playlist; the standalone record is still the one of the first call
\* and the other playlist has no record.
SameVideoInTwoContexts ==
    \E v \in VideoIds, p \in PlaylistIds :
        /\ single_videos[v].downloaded_at = 1
        /\ playlists[p].videos[v].downloaded_at = 2
        /\ \A p2 \in PlaylistIds \ {p} : ~playlists[p2].exists

\* C24: get_downloaded_video_ids returns the empty set for a playlist id that
\* has no record, so get_new_videos returns the whole id list for it, and the
\* call creates no record.
UnknownPlaylistHasNoDownloads ==
    /\ [](\A p \in PlaylistIds \cup {NoPlaylist} :
             (p = NoPlaylist \/ ~playlists[p].exists) =>
                 /\ GetDownloadedVideoIds(p) = {}
                 /\ (Answered /\ query.playlist_id = p) => query.last = query.ids)
    /\ [][GetNewVideosCall => playlists' = playlists]_vars

\* Witness of C24: get_new_videos was called for a playlist without a record
\* and an id list of which one video is recorded without a playlist and one
\* under another playlist.
AskedForUnknownPlaylist ==
    /\ Answered
    /\ query.playlist_id \in PlaylistIds
    /\ ~playlists[query.playlist_id].exists
    /\ Len(query.ids) >= 2
    /\ query.ids[1] \in Keys(single_videos)
    /\ \E p \in PlaylistIds : query.ids[2] \in Keys(playlists[p].videos)
    /\ query.last = query.ids

\* C26: when the write of the history file fails in add_video_download, the
\* call returns and the new record is in the ledger: get_downloaded_video_ids,
\* get_new_videos and is_video_downloaded see it, and no later call of this
\* process removes a recorded id.
FailedWriteKeepsRecord ==
    /\ [][\A v \in VideoIds, c \in Contents, p \in PlaylistIds \cup {NoPlaylist} :
             (AddVideoDownload(v, c, p) /\ historyFile' # Saved(playlists', single_videos')) =>
                 /\ loadError' = "none"
                 /\ RecordNext(v, p) = DownloadedVideo(c, clock')
                 /\ p # NoPlaylist =>
                        /\ v \in GetDownloadedVideoIds(p)'
                        /\ GetNewVideos(p, <<v>>)' = <<>>]_vars
    /\ [][~Restart =>
             \A p \in PlaylistIds \cup {NoPlaylist} : RecordedIn(p) \subseteq RecordedInNext(p)]_vars
    /\ [](\A p \in PlaylistIds \cup {NoPlaylist} : \A v \in RecordedIn(p) :
             /\ (p = NoPlaylist \/ playlists[p].exists) => IsVideoDownloaded(v, p)
             /\ (LookedUp /\ lookup.video_id = v /\ lookup.playlist_id = p) => lookup.answer)

\* Witness of C26: no write has succeeded, and is_video_downloaded has
\* answered True for a video under a playlist.
RecordSeenAfterFailedWrite ==
    /\ historyFile.state \in {"absent", "truncated"}
    /\ loadError = "none"
    /\ clock >= 1
    /\ LookedUp
    /\ lookup.playlist_id \in PlaylistIds
    /\ lookup.video_id \in Keys(playlists[lookup.playlist_id].videos)
    /\ lookup.answer

\* C27: when the concurrent add_video_download calls for different videos
\* have all returned and no write failed, every record is in the ledger and
\* the file holds the ledger.
ConcurrentAddsKeepBothRecords ==
    (/\ \A t \in Adders : adder[t].pc = "returned" /\ ~adder[t].failed
     /\ \A t1, t2 \in Adders : t1 # t2 => adder[t1].video_id # adder[t2].video_id) =>
        /\ \A t \in Adders : adder[t].video_id \in RecordedIn(adder[t].playlist_id)
        /\ historyFile = Saved(playlists, single_videos)

\* C28: add_video_download is called for a task only when the task is
\* COMPLETED, and a task it was called for is COMPLETED from then on: no task
\* that ends FAILED or CANCELLED has a history record.
RecordedTasksAreCompleted ==
    /\ [][\A o \in Objs : (o \in history' /\ o \notin history) =>
             task[o].status = "COMPLETED"]_vars
    /\ [](\A o \in history : task[o].status = "COMPLETED")

\* Witness of C28: all workers have returned; one task is recorded, and the
\* UI was told about another task, which ended FAILED or CANCELLED and is not
\* recorded.
OnlyTheCompletedTaskRecorded ==
    /\ Quiescent
    /\ history # {}
    /\ \E o \in uiPosted \ history : task[o].status \in {"FAILED", "CANCELLED"}

\* The percentages a task can show.
Percents == {e[2] : e \in HookEvents} \cup {0, PROGRESS_DONE}

RECURSIVE WeightedCount(_, _)
\* The sum over the percentages v of V of v times the number of ACTIVE tasks
\* of S that show v.
WeightedCount(S, V) ==
    IF V = {} THEN 0
    ELSE LET v == CHOOSE x \in V : TRUE
         IN v * Cardinality({o \in S : task[o].status = "ACTIVE" /\ task[o].progress = v})
            + WeightedCount(S, V \ {v})

\* C29: the overall_progress of an aggregate, total_progress / total_tasks,
\* is the mean over all tasks of the registry, as the aggregate copied it, of
\* 100 for a COMPLETED task, the percentage of an ACTIVE task and 0 for a
\* QUEUED, FAILED or CANCELLED one, which stay in the denominator.
OverallProgressIsTheMean ==
    [][\A o \in Objs :
          AggDeliver(o) =>
              /\ lastAggregate'.total_tasks = Cardinality(agg[o].snapshot)
              /\ lastAggregate'.total_tasks =
                     Count(agg[o].snapshot, {"COMPLETED", "ACTIVE"})
                        + Count(agg[o].snapshot, {"QUEUED", "FAILED", "CANCELLED"})
              /\ lastAggregate'.total_progress =
                     PROGRESS_DONE * Count(agg[o].snapshot, {"COMPLETED"})
                        + WeightedCount(agg[o].snapshot, Percents)]_vars

\* Witness of C29: an aggregate over two tasks was delivered, one of them
\* failed or cancelled and the other ACTIVE at 50 percent: the mean is 25.
MeanOfFailedAndHalfDone ==
    /\ lastAggregate.total_tasks = 2
    /\ lastAggregate.failed_tasks = 1
    /\ lastAggregate.active_tasks = 1
    /\ lastAggregate.total_progress = 50

\* C30: an aggregate whose overall_progress is 100 is delivered only when
\* every task of the registry is COMPLETED.
FullProgressMeansAllCompleted ==
    [][\A o \in Objs :
          (/\ AggDeliver(o)
           /\ lastAggregate'.total_progress = PROGRESS_DONE * lastAggregate'.total_tasks) =>
              \A o2 \in RegistryObjs : task[o2].status = "COMPLETED"]_vars

\* C35: a progress callback made for a task whose cancellation flag is set
\* raises "Download cancelled": the step changes no field of any task, posts no
\* task update, starts no aggregate, and the thread goes on in the exception's
\* path, never in the callback's locked block or its notification.
CancelledCallbackOnlyRaises ==
    [][\A o \in Objs :
          (CallbackCheck(o) /\ FlagIsSet(o)) =>
             /\ task' = task
             /\ delivered' = delivered
             /\ agg' = agg
             /\ pc'[o] \in {"cbCheck", "exc"}
             /\ cb'[o].error = ErrCancelled]_vars

\* A callback has raised on a set flag while its task was ACTIVE at 50 percent:
\* the exception left download and the task still shows what it showed.
CallbackRaisedOnSetFlag ==
    \E o \in Objs :
        /\ pc[o] = "exc"
        /\ cb[o] = Escaped(ErrCancelled)
        /\ FlagIsSet(o)
        /\ task[o].progress = 50
        /\ task[o].status = "CANCELLED"

\* C36: whenever on_batch_complete is called, every task of the registry has
\* a terminal status and none of them has a work item that a pool thread is
\* still to take (and so to move to ACTIVE).
BatchCompleteFindsBatchOver ==
    [][\A o \in Objs :
          DoneFire(o) => \A x \in RegistryObjs : /\ task[x].status \in Terminal
                                                /\ pc[x] # "queued"]_vars

\* C37: in every state in which a task of the registry is QUEUED or ACTIVE,
\* is_running() returns True.
RunningWhileTasksLive ==
    (\E o \in RegistryObjs : task[o].status \in {"QUEUED", "ACTIVE"}) => is_running

\* The ids with an entry in each of the three dicts.
TaskKeys == {i \in TaskIds : tasks[i] # 0}
FutureKeys == {i \in TaskIds : futures[i] # 0}
FlagKeys == {i \in TaskIds : cancel_flags[i] # "absent"}

\* C39: the registry, the cancellation flags and the futures have the same
\* keys in every state between two locked blocks; a key enters the three of
\* them in a submit_tasks call and leaves them only in clear()'s locked block,
\* which removes every key.
RegistryFlagsFuturesShareKeys ==
    /\ [](TaskKeys = FlagKeys /\ TaskKeys = FutureKeys)
    /\ [][/\ (TaskKeys' \ TaskKeys # {}) => \E s \in TaskIds, n \in 1..MaxObjs : SubmitTasks(s, n)
          /\ (TaskKeys \ TaskKeys' # {}) => (ClearWipe /\ TaskKeys' = {})]_vars

\* A cancelled task and a finished task keep their keys.
CancelledAndFinishedKeepKeys ==
    /\ TaskKeys = TaskIds
    /\ FlagKeys = TaskIds
    /\ FutureKeys = TaskIds
    /\ \E o \in RegistryObjs : pc[o] = "finished" /\ task[o].status = "COMPLETED"
    /\ \E o \in RegistryObjs : cancelledAs[o][1] = "cancel_task"

\* C40: a COMPLETED task has progress 100, and an id that get_completed_ids
\* returns is returned by every later call until clear() empties the
\* registry, as long as no later batch submits that id again.
CompletedStaysCompleted ==
    /\ [](\A o \in Objs : task[o].status = "COMPLETED" => task[o].progress = PROGRESS_DONE)
    /\ [][\A i \in GetCompletedIds :
             \/ i \in GetCompletedIds'
             \/ ClearWipe
             \/ \E s \in TaskIds, n \in 1..MaxObjs : SubmitTasks(s, n) /\ i \in BatchIds(s, n)]_vars

\* An id is still returned after its flag was set by a cancel call and its
\* thread has left _on_task_done.
CompletedIdSurvivesCancel ==
    \E i \in GetCompletedIds :
        /\ cancel_flags[i] = "set"
        /\ pc[tasks[i]] = "finished"
        /\ task[tasks[i]].progress = PROGRESS_DONE
        /\ ~is_running

\* The tasks of the call that are ACTIVE and have a speed string.
Contributing(ts) == {i \in 1..Len(ts) : ts[i].status = "ACTIVE" /\ ts[i].speed # NoSpeed}

\* The sum of the byte rates that the strings of the tasks at the positions P
\* denote, in tenths of a byte per second.
RECURSIVE RateSum(_, _)
RateSum(ts, P) ==
    IF P = {} THEN 0
    ELSE LET i == CHOOSE j \in P : TRUE
         IN  ts[i].speed.value10 * (IF ts[i].speed.unit = "MB/s" THEN MB
                                    ELSE IF ts[i].speed.unit = "KB/s" THEN KB
                                    ELSE 1)
             + RateSum(ts, P \ {i})

\* The byte rate a returned string denotes, in tenths of a byte per second,
\* and the rate of one step of its last digit.
Denotes(str) == str.value10 * (IF str.unit = "MB/s" THEN MB
                               ELSE IF str.unit = "KB/s" THEN KB ELSE 1)
LastDigit(str) == IF str.unit = "MB/s" THEN MB ELSE IF str.unit = "KB/s" THEN KB ELSE 10

\* C31: total_speed is the sum of the byte rates that the speed strings of the
\* ACTIVE tasks denote (tasks in another status add nothing, whatever their
\* string), written in B/s, KB/s or MB/s with units of 1024, rounded to the
\* last digit shown; "2.0 MB/s" and "500.0 KB/s" of two ACTIVE tasks give
\* "2.5 MB/s".
TotalSpeedSumsActiveRates ==
    speedCall.called =>
       LET ts == speedCall.tasks
           total == RateSum(ts, Contributing(ts))
           str == speedCall.total_speed
       IN  /\ total = 0 <=> str = NoSpeed
           /\ total > 0 =>
                 /\ str.unit \in SpeedUnits
                 /\ 2 * (Denotes(str) - total) <= LastDigit(str)
                 /\ 2 * (total - Denotes(str)) <= LastDigit(str)
                 /\ str.unit = "MB/s" => total > 10 * MB
                 /\ str.unit = "KB/s" => total > 10 * KB
                 /\ str.unit = "B/s" => total <= 10 * KB
           /\ (\E i, j \in Contributing(ts) :
                   /\ Contributing(ts) = {i, j}
                   /\ ts[i].speed = SpeedString(20, "MB/s")
                   /\ ts[j].speed = SpeedString(5000, "KB/s"))
                 => str = SpeedString(25, "MB/s")

\* The call of the example, with a CANCELLED task that still carries
\* "2.0 MB/s" between the two ACTIVE ones.
TwoActiveAndOneCancelledSummed ==
    /\ speedCall.called
    /\ speedCall.tasks = <<[status |-> "ACTIVE", speed |-> SpeedString(20, "MB/s")],
                           [status |-> "CANCELLED", speed |-> SpeedString(20, "MB/s")],
                           [status |-> "ACTIVE", speed |-> SpeedString(5000, "KB/s")]>>
    /\ speedCall.total_speed = SpeedString(25, "MB/s")

\* C32: the worker bound is the max_workers argument clamped into 1..8: it is
\* between 1 and 8 for every argument, zero, negative and above 8 included,
\* and it is the argument whenever that lies between 1 and 8.
WorkerBoundIsClamped ==
    ctorCall.called =>
       /\ 1 <= ctorCall.bound
       /\ ctorCall.bound <= 8
       /\ (1 <= ctorCall.max_workers /\ ctorCall.max_workers <= 8)
             => ctorCall.bound = ctorCall.max_workers
       /\ ctorCall.max_workers < 1 => ctorCall.bound = 1
       /\ ctorCall.max_workers > 8 => ctorCall.bound = 8

\* A manager asked for more than 8 workers has been constructed.
ConstructedAboveEight ==
    /\ ctorCall.called
    /\ ctorCall.max_workers = MaxWorkerRequest
    /\ ctorCall.bound = 8

\* The threads, and a step of thread t in the lock's model.
Threads == Objs \cup {ClientThread}
StepOf(t) ==
    IF t = ClientThread
    THEN ClientEnters \/ ClientGoesOn
    ELSE PoolEnters(t) \/ PoolBlock(t) \/ PoolUnlocked(t) \/ PoolDownloads(t)

\* C33: every write to the shared state is made by a thread that holds the
\* lock: the fields of the tasks, the registry, the cancellation flags and
\* _is_running.
SharedWritesHoldLock ==
    [][\A t \in Threads :
          (/\ StepOf(t)
           /\ \/ task' # task
              \/ tasks' # tasks
              \/ cancel_flags' # cancel_flags
              \/ is_running' # is_running)
          => lock = t]_vars

\* What a pool thread does outside the manager's own code: it runs
\* Downloader.download or calls one of the three callbacks.
CallsOut(o) ==
    \/ NotifyTaskUpdate(o)
    \/ AggDeliver(o)
    \/ DoneFire(o)
    \/ DownloadRaises(o)
    \/ \E ok \in BOOLEAN : DownloadBegins(o, ok)
    \/ \E h \in HookEvents : ProgressHook(o, h[1], h[2])
    \/ DownloadFinishes(o)
    \/ DownloadFails(o)

\* C34: the lock is held only inside the short blocks: a pool thread that
\* holds it stands at one of the `with self._lock` statements, never inside
\* Downloader.download and never at a notification; the client holds it only
\* inside the block of a call, which waits for no job; and every step that
\* runs download or calls on_task_update, on_aggregate_update or
\* on_batch_complete is taken by a thread that does not hold the lock.
LockHeldOnlyInShortBlocks ==
    /\ [](\A o \in Objs :
            lock = o => pc[o] \in {"queued", "aggSnapshot", "cbUpdate", "retTrue", "retFalse",
                                   "exc", "doneCheck"})
    /\ [](lock = ClientThread => callPc \in {"idle", "attach"})
    /\ [][\A o \in Objs : CallsOut(o) => lock # o]_vars

\* The client holds the lock while a pool thread, whose ACTIVE notification
\* has been made, is inside ydl.download.
ClientHoldsLockDuringDownload ==
    /\ lock = ClientThread
    /\ \E o \in Objs : pc[o] = "running" /\ o \in uiPosted /\ task[o].status = "ACTIVE"

\* C38: no thread waits for the lock it holds: the done-callback that
\* submit_tasks registers is never run by the submitting thread inside its
\* block, because no future of the batch is done before the block is left.
NoThreadWaitsForItself ==
    /\ callPc # "stuck"
    /\ (lock = ClientThread /\ callPc = "attach") =>
          \A o \in Objs : pool[o] = submits => ~FutureDone(o)

\* submit_tasks is inside its block, its work items handed to the pool, while
\* a thread of the earlier batch waits for the lock in _on_task_done.
SubmitHoldsLockWhileDoneWaits ==
    /\ lock = ClientThread
    /\ callPc = "attach"
    /\ \E o \in Objs : pool[o] = submits /\ pc[o] = "queued"
    /\ \E o \in Objs : pool[o] # submits /\ pc[o] = "doneCheck"

====
